---- MODULE Spec2Model ----
(***************************************************************************)
(* Session registry (SessionManager) and the WebSocket relay of the        *)
(* realtime backend.                                                       *)
(*                                                                         *)
(*   Spec               the registry driven by arbitrary callers           *)
(*   FieldSpec          the registry: configs and fields are set           *)
(*   TimedSpec          the registry while time passes: sweeps             *)
(*   RemoveSpec         the registry: creates, removes, sweeps             *)
(*   StatsSpec          the registry: sessions come and go, stats are read *)
(*   MapSpec            the registry: the client map under every mutation  *)
(*   ActivitySpec       the registry: last_activity is set                 *)
(*   SweepTaskFairSpec  the registry and its background task, with a clock *)
(*                      and an event loop that advance                     *)
(*   RelaySpec          one run of the /ws/realtime endpoint handler: the  *)
(*                      session it registers, the upstream client, the two *)
(*                      relay loops, either peer closing at any time       *)
(*   PumpSpec           such a run with both connections staying open and  *)
(*                      the client sending messages of every type          *)
(*   EventPumpSpec      the same with upstream events of every type        *)
(*   RelayClockSpec     such a run while the registry is swept             *)
(*   TeardownSpec       such a run with disconnect() taken at its await    *)
(*   DisconnectSpec     such a run with further calls of disconnect()      *)
(*   ConcurrentSpec     the registry called by two handlers, by statement  *)
(*   CodecSpec          the audio codec applied to byte buffers            *)
(***************************************************************************)
EXTENDS Integers, Sequences, FiniteSets, TLC

(* ------------------------------ bounds --------------------------------- *)

\* number of session ids (uuid4 values) the registry hands out in one run
MaxSessions == 3
\* the clock runs from 0 to MaxTime seconds
MaxTime == 2

\* calls of OpenAIRealtimeClient.disconnect made besides the handler's own
MaxDisconnects == 2

\* length of the byte buffers given to the audio codec
MaxBufferLen == 4

\* program constants: SessionManager.__init__
DefaultCleanupInterval == 60
DefaultSessionTimeout == 300

ClientIds == {"a", "b"}
SessionIds == 1..MaxSessions
Times == 0..MaxTime

\* Optional[...] fields hold "None" when unset
None == "None"

VARIABLES
    \* SessionManager
    sessions,            \* _sessions: session_id -> ClientSession
    client_to_session,   \* _client_to_session: client_id -> session_id
    cleanup_task,        \* _cleanup_task: "None" | "sleeping" | "cancelling" | "done"
    wake_at,             \* when the pending asyncio.sleep of _periodic_cleanup ends
    cleanup_interval,    \* _cleanup_interval
    session_timeout,     \* _session_timeout
    shutdown_pc,         \* position of a running shutdown(): "idle" | "awaiting"
    \* environment of the registry
    now,                 \* datetime.datetime.now()
    next_id,             \* next uuid4 value
    lastOp               \* the registry call made by the last step and its result

VARIABLES
    \* websocket_realtime / handle_websocket_connection (one accepted connection)
    pc,                  \* position of the endpoint handler
    handler_exc,         \* the exception the handler is unwinding with, or None
    ep_session,          \* session.session_id of the handler's session, or None
    gather_exc,          \* exception asyncio.gather propagates (the first a child raised)
    both_failed,         \* the second child raised too before the handler resumed
    client_loop,         \* position of handle_client_messages
    client_loop_err,     \* error text handle_client_messages is about to report
    openai_loop,         \* position of handle_openai_messages
    \* OpenAIRealtimeClient
    openai_ws,           \* self.websocket: None | "open" | "closing" | "closed_ok" |
                         \* "closed_error"
    is_connected,        \* self.is_connected
    session_config,      \* self.session_config
    \* the two peers, as the handler sees them
    client_ws,           \* the client connection: "open" | "closed"
    client_recv,         \* messages the client has received, in order
    upstream_recv,       \* commands the upstream API has received, in order
    client_frames,       \* number of frames the client has sent
    upstream_frames,     \* number of frames the upstream API has sent
    \* history
    disconnect_calls,    \* calls of OpenAIRealtimeClient.disconnect
    remove_calls,        \* calls of remove_session made by the handler
    upstream_send_failed, \* a command of the client loop failed at the upstream transport
    error_dropped,       \* send_error_to_client failed to send and swallowed it
    client_sent,         \* frames the client loop has read, in order
    upstream_sent,       \* frames listen() has read, in order
    listen_yielded       \* events listen() has yielded, in order

regVars == <<sessions, client_to_session, cleanup_task, wake_at, cleanup_interval,
             session_timeout, shutdown_pc, now, next_id, lastOp>>

handlerVars == <<pc, handler_exc, ep_session, gather_exc, both_failed>>
loopVars == <<client_loop, client_loop_err, openai_loop>>
rcVars == <<openai_ws, is_connected, session_config>>
peerVars == <<client_ws, client_recv, upstream_recv, client_frames, upstream_frames>>
histVars == <<disconnect_calls, remove_calls, upstream_send_failed, error_dropped>>

sentVars == <<client_sent, upstream_sent, listen_yielded>>

relayVars == <<handlerVars, loopVars, rcVars, peerVars, histVars, sentVars>>

VARIABLES
    \* coroutines of the event loop that call the registry
    calls                \* per coroutine: the registry call it is in and its locals

callVars == <<calls>>

VARIABLES
    \* AudioProcessor, applied to one buffer
    codec_pc,            \* "input" | "encoded" | "decoded"
    audio_bytes,         \* the buffer given to encode_audio: a sequence of bytes
    audio_base64,        \* what encode_audio returned: a sequence of characters
    audio_decoded        \* what decode_audio returned or raised

codecVars == <<codec_pc, audio_bytes, audio_base64, audio_decoded>>

vars == <<regVars, relayVars, callVars, codecVars>>

(* ------------------------- models.py: dataclasses ---------------------- *)

\* SessionConfig(): the dataclass defaults (two of its fields are modelled)
SessionConfigDefaults == [voice |-> "alloy", instructions |-> None]

\* SessionConfig(**patch): the constructor fills every unnamed field with its default
SessionConfig(patch) ==
    [f \in DOMAIN SessionConfigDefaults |->
        IF f \in DOMAIN patch THEN patch[f] ELSE SessionConfigDefaults[f]]

\* ClientSession as create_session builds it
NewSession(sid, cid, t, cfg) ==
    [client_id |-> cid, config |-> cfg, connected_at |-> t, conversation_id |-> None,
     is_active |-> TRUE, last_activity |-> t, openai_session_id |-> None,
     session_id |-> sid]

EmptyMap == [x \in {} |-> 0]

MapPut(m, k, v) == [x \in DOMAIN m \cup {k} |-> IF x = k THEN v ELSE m[x]]

(* ----------------------- SessionManager: lookups ----------------------- *)

get_session(sid) == IF sid \in DOMAIN sessions THEN sessions[sid] ELSE None

get_session_by_client_id(cid) ==
    IF cid \in DOMAIN client_to_session
    THEN get_session(client_to_session[cid])
    ELSE None

\* (mutant) a duplicate check that refuses a client whose mapped session is stored,
\* active or not
AnySessionExists(cid) ==
    /\ cid \in DOMAIN client_to_session
    /\ client_to_session[cid] \in DOMAIN sessions

\* the duplicate check of create_session
ActiveSessionExists(cid) ==
    /\ cid \in DOMAIN client_to_session
    /\ client_to_session[cid] \in DOMAIN sessions
    /\ sessions[client_to_session[cid]].is_active

get_session_count == Cardinality(DOMAIN sessions)
get_active_session_count == Cardinality({s \in DOMAIN sessions : sessions[s].is_active})

(* --------------------- SessionManager: operations ---------------------- *)

\* (mutant) an allow-list that lets a caller change a session's client_id
allowed_fieldsWithClientId ==
    {"openai_session_id", "config", "is_active", "conversation_id", "last_activity",
     "client_id"}

\* update_session: the allow-list
allowed_fields ==
    {"openai_session_id", "config", "is_active", "conversation_id", "last_activity"}

\* update_session: the setattr loop over kwargs
ApplyKwargs(session, kwargs) ==
    [f \in DOMAIN session |->
        IF f \in DOMAIN kwargs /\ f \in allowed_fields THEN kwargs[f] ELSE session[f]]

\* update_session: last_activity becomes now unless the caller named it
TouchUnlessGiven(session, kwargs, t) ==
    IF "last_activity" \in DOMAIN kwargs
    THEN session
    ELSE [f \in DOMAIN session |-> IF f = "last_activity" THEN t ELSE session[f]]

\* remove_session, applied to each session of S in turn: the records left
SessionsWithout(S) == [s \in DOMAIN sessions \ S |-> sessions[s]]

\* remove_session, applied to each session of S in turn: the client mapping left
\* (the entry of the session's client_id is deleted whatever it points to)
ClientMapWithout(S) ==
    [c \in DOMAIN client_to_session \ {sessions[s].client_id : s \in S \cap DOMAIN sessions}
        |-> client_to_session[c]]

\* (mutant) a sweep that also removes a session whose age equals its limit
SessionsToRemoveAtLimit ==
    {s \in DOMAIN sessions :
        \/ ~sessions[s].is_active /\ now - sessions[s].last_activity >= cleanup_interval
        \/ sessions[s].is_active /\ now - sessions[s].last_activity >= session_timeout}

\* cleanup_inactive_sessions: sessions_to_remove
SessionsToRemove ==
    {s \in DOMAIN sessions :
        \/ ~sessions[s].is_active /\ now - sessions[s].last_activity > cleanup_interval
        \/ sessions[s].is_active /\ now - sessions[s].last_activity > session_timeout}

\* (mutant) a create that starts the background task only the first time
CleanupTaskNeverStarted == cleanup_task = "None"

\* create_session: "if self._cleanup_task is None or self._cleanup_task.done()"
CleanupTaskNeedsStart == cleanup_task \in {"None", "done"}

\* a registry call: its name, its parameter and what it returned or raised
Op(op, param, result) == [op |-> op, param |-> param, result |-> result]

regConfigVars == <<cleanup_interval, session_timeout>>

\* configs a caller passes to create_session (None stands for the omitted argument)
CreateConfigs == {None, "echo"}

create_session(cid, cfg) ==
    IF ActiveSessionExists(cid)
    THEN /\ lastOp' = Op("create", cid, "ValueError")
         /\ UNCHANGED <<sessions, client_to_session, cleanup_task, wake_at, next_id>>
    ELSE /\ next_id <= MaxSessions
         /\ sessions' = MapPut(sessions, next_id,
                NewSession(next_id, cid, now,
                    IF cfg = None THEN SessionConfigDefaults
                    ELSE SessionConfig([voice |-> cfg])))
         /\ client_to_session' = MapPut(client_to_session, cid, next_id)
         /\ next_id' = next_id + 1
         /\ IF CleanupTaskNeedsStart
            THEN cleanup_task' = "sleeping" /\ wake_at' = now + cleanup_interval
            ELSE UNCHANGED <<cleanup_task, wake_at>>
         /\ lastOp' = Op("create", cid, "created")

CreateSession(cid, cfg) ==
    /\ UNCHANGED <<relayVars, callVars, codecVars>>
    /\ create_session(cid, cfg)
    /\ UNCHANGED <<regConfigVars, shutdown_pc, now>>

\* the keyword arguments callers pass to update_session
UpdateKwargs ==
    {[is_active |-> b] : b \in BOOLEAN}
    \cup {[openai_session_id |-> "oa1"], [conversation_id |-> "cv1"]}
    \cup {[config |-> SessionConfig([voice |-> "echo"])],
          [config |-> SessionConfig([instructions |-> "brief"])]}
    \cup {[last_activity |-> t] : t \in Times}
    \cup {[client_id |-> "b"], [session_id |-> 0], [connected_at |-> MaxTime],
          [bogus |-> TRUE]}
    \cup {[is_active |-> FALSE, last_activity |-> 0]}

\* update_session(self, session_id, **kwargs): a keyword named session_id collides
\* with the positional parameter, and the call raises TypeError before the body runs
update_session(sid, kwargs, opname) ==
    IF "session_id" \in DOMAIN kwargs
    THEN /\ lastOp' = Op("update_error", sid, "TypeError")
         /\ UNCHANGED sessions
    ELSE IF sid \notin DOMAIN sessions
    THEN /\ lastOp' = Op(opname, sid, FALSE)
         /\ UNCHANGED sessions
    ELSE /\ sessions' = [sessions EXCEPT
                ![sid] = TouchUnlessGiven(ApplyKwargs(sessions[sid], kwargs), kwargs, now)]
         /\ lastOp' = Op(opname, sid, TRUE)

UpdateSession(sid, kwargs) ==
    /\ UNCHANGED <<relayVars, callVars, codecVars>>
    /\ update_session(sid, kwargs, "update")
    /\ UNCHANGED <<client_to_session, cleanup_task, wake_at, regConfigVars,
                   shutdown_pc, now, next_id>>

\* update_last_activity
UpdateLastActivity(sid) ==
    /\ UNCHANGED <<relayVars, callVars, codecVars>>
    /\ update_session(sid, [last_activity |-> now], "touch")
    /\ UNCHANGED <<client_to_session, cleanup_task, wake_at, regConfigVars,
                   shutdown_pc, now, next_id>>

\* (mutant) a remove that deletes the record and keeps the client mapping
remove_sessionKeepsMapping(sid) ==
    IF sid \notin DOMAIN sessions
    THEN /\ lastOp' = Op("remove", sid, FALSE)
         /\ UNCHANGED <<sessions, client_to_session>>
    ELSE /\ sessions' = SessionsWithout({sid})
         /\ UNCHANGED client_to_session
         /\ lastOp' = Op("remove", sid, TRUE)

remove_session(sid) ==
    IF sid \notin DOMAIN sessions
    THEN /\ lastOp' = Op("remove", sid, FALSE)
         /\ UNCHANGED <<sessions, client_to_session>>
    ELSE /\ sessions' = SessionsWithout({sid})
         /\ client_to_session' = ClientMapWithout({sid})
         /\ lastOp' = Op("remove", sid, TRUE)

RemoveSession(sid) ==
    /\ UNCHANGED <<relayVars, callVars, codecVars>>
    /\ remove_session(sid)
    /\ UNCHANGED <<cleanup_task, wake_at, regConfigVars, shutdown_pc, now, next_id>>

DeactivateSession(sid) ==
    /\ UNCHANGED <<relayVars, callVars, codecVars>>
    /\ IF sid \notin DOMAIN sessions
       THEN /\ lastOp' = Op("deactivate", sid, FALSE)
            /\ UNCHANGED sessions
       ELSE /\ sessions' = [sessions EXCEPT ![sid].is_active = FALSE]
            /\ lastOp' = Op("deactivate", sid, TRUE)
    /\ UNCHANGED <<client_to_session, cleanup_task, wake_at, regConfigVars,
                   shutdown_pc, now, next_id>>

\* cleanup_inactive_sessions: collect, then remove_session each; returns removed_count
cleanup_inactive_sessions(opname) ==
    LET sessions_to_remove == SessionsToRemove IN
    /\ sessions' = SessionsWithout(sessions_to_remove)
    /\ client_to_session' = ClientMapWithout(sessions_to_remove)
    /\ lastOp' = Op(opname, sessions_to_remove, Cardinality(sessions_to_remove))

CleanupInactiveSessions ==
    /\ UNCHANGED <<relayVars, callVars, codecVars>>
    /\ cleanup_inactive_sessions("sweep")
    /\ UNCHANGED <<cleanup_task, wake_at, regConfigVars, shutdown_pc, now, next_id>>

\* _periodic_cleanup: one wake-up from asyncio.sleep(self._cleanup_interval)
PeriodicCleanup ==
    /\ UNCHANGED <<relayVars, callVars, codecVars>>
    /\ cleanup_task = "sleeping"
    /\ now >= wake_at
    /\ IF DOMAIN sessions # {}
       THEN /\ wake_at' = now + cleanup_interval
            /\ UNCHANGED cleanup_task
            /\ cleanup_inactive_sessions("periodic")
       ELSE /\ cleanup_task' = "done"
            /\ lastOp' = Op("periodic_end", {}, "stopped")
            /\ UNCHANGED <<sessions, client_to_session, wake_at>>
    /\ UNCHANGED <<regConfigVars, shutdown_pc, now, next_id>>

\* _periodic_cleanup: "except asyncio.CancelledError", the task ends
CleanupTaskCancelled ==
    /\ UNCHANGED <<relayVars, callVars, codecVars>>
    /\ cleanup_task = "cancelling"
    /\ cleanup_task' = "done"
    /\ shutdown_pc' = IF shutdown_pc = "awaiting" THEN "resuming" ELSE shutdown_pc
    /\ lastOp' = Op("periodic_end", {}, "cancelled")
    /\ UNCHANGED <<sessions, client_to_session, wake_at, regConfigVars, now, next_id>>

\* (mutant) statistics that report every stored session as inactive
get_statsInactiveAsTotal ==
    [total_sessions |-> Cardinality(DOMAIN sessions),
     active_sessions |-> get_active_session_count,
     inactive_sessions |-> Cardinality(DOMAIN sessions),
     cleanup_interval |-> cleanup_interval,
     session_timeout |-> session_timeout]

\* get_stats: the dict it returns
get_stats ==
    [total_sessions |-> Cardinality(DOMAIN sessions),
     active_sessions |-> get_active_session_count,
     inactive_sessions |-> Cardinality(DOMAIN sessions) - get_active_session_count,
     cleanup_interval |-> cleanup_interval,
     session_timeout |-> session_timeout]

\* a caller reads the statistics
GetStats ==
    /\ UNCHANGED <<relayVars, callVars, codecVars>>
    /\ lastOp' = Op("get_stats", {}, get_stats)
    /\ UNCHANGED <<sessions, client_to_session, cleanup_task, wake_at, regConfigVars,
                   shutdown_pc, now, next_id>>

\* values callers pass to the two setters
IntervalValues == {0, 1}
TimeoutValues == {0, 1, 2}

SetCleanupInterval(v) ==
    /\ UNCHANGED <<relayVars, callVars, codecVars>>
    /\ IF v > 0
       THEN cleanup_interval' = v /\ lastOp' = Op("set_cleanup_interval", v, TRUE)
       ELSE UNCHANGED cleanup_interval /\ lastOp' = Op("set_cleanup_interval", v, "ValueError")
    /\ UNCHANGED <<sessions, client_to_session, cleanup_task, wake_at, session_timeout,
                   shutdown_pc, now, next_id>>

SetSessionTimeout(v) ==
    /\ UNCHANGED <<relayVars, callVars, codecVars>>
    /\ IF v > 0
       THEN session_timeout' = v /\ lastOp' = Op("set_session_timeout", v, TRUE)
       ELSE UNCHANGED session_timeout /\ lastOp' = Op("set_session_timeout", v, "ValueError")
    /\ UNCHANGED <<sessions, client_to_session, cleanup_task, wake_at, cleanup_interval,
                   shutdown_pc, now, next_id>>

\* shutdown: the "remove every session" loop
ShutdownRemoveAll ==
    /\ sessions' = SessionsWithout(DOMAIN sessions)
    /\ client_to_session' = ClientMapWithout(DOMAIN sessions)

\* shutdown, up to "await self._cleanup_task" (not reached when no task is pending)
Shutdown ==
    /\ UNCHANGED <<relayVars, callVars, codecVars>>
    /\ shutdown_pc = "idle"
    /\ IF cleanup_task \in {"sleeping", "cancelling"}
       THEN /\ cleanup_task' = "cancelling"
            /\ shutdown_pc' = "awaiting"
            /\ lastOp' = Op("shutdown", {}, "awaiting")
            /\ UNCHANGED <<sessions, client_to_session>>
       ELSE /\ ShutdownRemoveAll
            /\ lastOp' = Op("shutdown", {}, "done")
            /\ UNCHANGED <<cleanup_task, shutdown_pc>>
    /\ UNCHANGED <<wake_at, regConfigVars, now, next_id>>

\* shutdown, resumed once the awaited task has ended
ShutdownResume ==
    /\ UNCHANGED <<relayVars, callVars, codecVars>>
    /\ shutdown_pc = "resuming"
    /\ ShutdownRemoveAll
    /\ shutdown_pc' = "idle"
    /\ lastOp' = Op("shutdown", {}, "done")
    /\ UNCHANGED <<cleanup_task, wake_at, regConfigVars, now, next_id>>

\* datetime.datetime.now() advances; a due asyncio.sleep wakes before time moves on
Tick ==
    /\ UNCHANGED <<relayVars, callVars, codecVars>>
    /\ now < MaxTime
    /\ ~(cleanup_task = "sleeping" /\ now >= wake_at)
    /\ now' = now + 1
    /\ lastOp' = Op("tick", {}, now + 1)
    /\ UNCHANGED <<sessions, client_to_session, cleanup_task, wake_at, regConfigVars,
                   shutdown_pc, next_id>>

(* ----------------- websocket_handler.py: the translator ---------------- *)

\* dict.get(key, default)
Get(d, key, default) == IF key \in DOMAIN d THEN d[key] ELSE default

\* a dict is falsy when empty ("if session_config:")
Truthy(d) == DOMAIN d # {}

\* (mutant) a dispatch whose last branch forwards the message as audio
RcCallUnknownAsAppend(data) ==
    LET message_type == Get(data, "type", None) IN
    CASE message_type = "audio.append" ->
            [method |-> "send_audio", arg |-> Get(data, "audio", "")]
      [] message_type = "audio.commit" ->
            [method |-> "commit_audio", arg |-> None]
      [] message_type = "conversation.interrupt" ->
            [method |-> "interrupt_conversation", arg |-> None]
      [] message_type = "session.update" ->
            [method |-> "update_session", arg |-> Get(data, "config", EmptyMap)]
      [] message_type = "session.create" /\ Truthy(Get(data, "session", EmptyMap)) ->
            [method |-> "update_session", arg |-> Get(data, "session", EmptyMap)]
      [] OTHER -> [method |-> "send_audio", arg |-> Get(data, "audio", "")]

\* process_client_message: the OpenAIRealtimeClient method it calls, if any
RcCall(data) ==
    LET message_type == Get(data, "type", None) IN
    CASE message_type = "audio.append" ->
            [method |-> "send_audio", arg |-> Get(data, "audio", "")]
      [] message_type = "audio.commit" ->
            [method |-> "commit_audio", arg |-> None]
      [] message_type = "conversation.interrupt" ->
            [method |-> "interrupt_conversation", arg |-> None]
      [] message_type = "session.update" ->
            [method |-> "update_session", arg |-> Get(data, "config", EmptyMap)]
      [] message_type = "session.create" /\ Truthy(Get(data, "session", EmptyMap)) ->
            [method |-> "update_session", arg |-> Get(data, "session", EmptyMap)]
      [] OTHER -> [method |-> None, arg |-> None]

\* (mutant) an update that replaces the config with the patch
DictReplace(d, patch) == patch

\* update_session: self.session_config.update(config)
DictUpdate(d, patch) ==
    [k \in DOMAIN d \cup DOMAIN patch |-> IF k \in DOMAIN patch THEN patch[k] ELSE d[k]]

\* the config an OpenAIRealtimeClient method leaves in self.session_config
ConfigAfter(call) ==
    IF call.method = "update_session"
    THEN DictUpdate(session_config, call.arg)
    ELSE session_config

\* the first command an OpenAIRealtimeClient method sends
FirstCommand(call) ==
    CASE call.method = "send_audio" ->
            [type |-> "input_audio_buffer.append", audio |-> call.arg]
      [] call.method = "commit_audio" -> [type |-> "input_audio_buffer.commit"]
      [] call.method = "interrupt_conversation" -> [type |-> "response.cancel"]
      [] call.method = "update_session" ->
            [type |-> "session.update", session |-> ConfigAfter(call)]

\* (mutant) commit_audio following its commit with another command
ResponseCreateAsCancel == [type |-> "response.cancel"]

\* commit_audio: the command that follows input_audio_buffer.commit
ResponseCreate == [type |-> "response.create"]

\* (mutant) a connect that opens the conversation by asking for a response
SessionInitAsResponseCreate == [type |-> "response.create"]

\* _initialize_session: the command it sends
SessionInitCommand == [type |-> "session.update", session |-> session_config]

\* (mutant) a translator that marks the partial assistant transcript as final
ClientMessageForDeltaFinal(message, session_id) ==
    LET message_type == Get(message, "type", None) IN
    CASE message_type = "response.audio.delta" ->
            [type |-> "audio.delta", audio |-> Get(message, "delta", ""),
             itemId |-> Get(message, "item_id", None), sessionId |-> session_id]
      [] message_type = "response.audio.done" ->
            [type |-> "audio.done", itemId |-> Get(message, "item_id", None),
             sessionId |-> session_id]
      [] message_type = "conversation.item.input_audio_transcription.completed" ->
            [type |-> "transcript.user", text |-> Get(message, "transcript", ""),
             isFinal |-> TRUE, sessionId |-> session_id]
      [] message_type = "response.text.delta" ->
            [type |-> "transcript.assistant", text |-> Get(message, "delta", ""),
             isFinal |-> TRUE, itemId |-> Get(message, "item_id", None),
             sessionId |-> session_id]
      [] message_type = "response.text.done" ->
            [type |-> "transcript.assistant", text |-> Get(message, "text", ""),
             isFinal |-> TRUE, itemId |-> Get(message, "item_id", None),
             sessionId |-> session_id]
      [] message_type = "error" ->
            [type |-> "error",
             message |-> Get(Get(message, "error", EmptyMap), "message", "Unknown error"),
             code |-> Get(Get(message, "error", EmptyMap), "code", None),
             sessionId |-> session_id]
      [] OTHER -> [type |-> None]

\* process_openai_message: the message sent to the client, or None for no message
ClientMessageFor(message, session_id) ==
    LET message_type == Get(message, "type", None) IN
    CASE message_type = "response.audio.delta" ->
            [type |-> "audio.delta", audio |-> Get(message, "delta", ""),
             itemId |-> Get(message, "item_id", None), sessionId |-> session_id]
      [] message_type = "response.audio.done" ->
            [type |-> "audio.done", itemId |-> Get(message, "item_id", None),
             sessionId |-> session_id]
      [] message_type = "conversation.item.input_audio_transcription.completed" ->
            [type |-> "transcript.user", text |-> Get(message, "transcript", ""),
             isFinal |-> TRUE, sessionId |-> session_id]
      [] message_type = "response.text.delta" ->
            [type |-> "transcript.assistant", text |-> Get(message, "delta", ""),
             isFinal |-> FALSE, itemId |-> Get(message, "item_id", None),
             sessionId |-> session_id]
      [] message_type = "response.text.done" ->
            [type |-> "transcript.assistant", text |-> Get(message, "text", ""),
             isFinal |-> TRUE, itemId |-> Get(message, "item_id", None),
             sessionId |-> session_id]
      [] message_type = "error" ->
            [type |-> "error",
             message |-> Get(Get(message, "error", EmptyMap), "message", "Unknown error"),
             code |-> Get(Get(message, "error", EmptyMap), "code", None),
             sessionId |-> session_id]
      [] OTHER -> [type |-> None]

\* send_error_to_client: the message it sends
ServerErrorMessage(error_message) ==
    [type |-> "error", message |-> error_message, code |-> "SERVER_ERROR"]

\* (mutant) the error report without its code
WebSocketErrorMessageNoCode ==
    [type |-> "error", message |-> "str(e)", code |-> None]

\* websocket_realtime, "except Exception": the message it sends
WebSocketErrorMessage ==
    [type |-> "error", message |-> "str(e)", code |-> "WEBSOCKET_ERROR"]

\* (mutant) an established message that names no session of the registry
ConnectionEstablishedNoSession(session_id) ==
    [type |-> "connection.established", sessionId |-> 0]

\* websocket_realtime: the first message it sends
ConnectionEstablished(session_id) ==
    [type |-> "connection.established", sessionId |-> session_id]

\* OpenAIRealtimeClient.__init__: self.session_config (two of its keys are modelled)
InitialSessionConfig == [voice |-> "alloy", instructions |-> "You are a helpful AI voice assistant."]

(* ------------------------------ the peers ------------------------------ *)

\* number of frames each peer sends in one run
MaxClientFrames == 2
MaxUpstreamFrames == 2

TextFrame(data) == [frame |-> "text", json |-> TRUE, data |-> data]
\* a text frame json.loads rejects
BadJsonFrame == [frame |-> "text", json |-> FALSE]
\* a binary frame: receive_text / "isinstance(message, str)" see no text in it
BytesFrame == [frame |-> "bytes"]

\* a text frame whose JSON is an array: json.loads returns a list, which has no
\* get method
JsonArrayFrame == [frame |-> "text", json |-> TRUE, data |-> EmptyMap, array |-> TRUE]

\* frames the client sends: one of each way handle_client_messages can go
ClientFrames ==
    {BadJsonFrame, BytesFrame,
     TextFrame([type |-> "audio.append", audio |-> "QUJD"]),
     TextFrame([type |-> "audio.commit"]),
     TextFrame([type |-> "session.update", config |-> [voice |-> "echo"]])}

\* frames the upstream API sends: one of each way listen and its consumer can go
UpstreamFrames ==
    {BadJsonFrame, BytesFrame,
     TextFrame([type |-> "response.audio.delta", delta |-> "QUJD", item_id |-> "it1"]),
     TextFrame([type |-> "error", error |-> [message |-> "bad"]])}

\* frames the client sends to a relay whose connections stay open: every message
\* type of process_client_message, with and without its payload fields
AllClientFrames ==
    ClientFrames \cup
    {TextFrame([type |-> "conversation.interrupt"]),
     TextFrame([type |-> "session.create", session |-> EmptyMap]),
     TextFrame([type |-> "unknown.type"]),
     TextFrame([type |-> "audio.append"]),
     TextFrame([type |-> "session.update", config |-> [instructions |-> "brief"]]),
     TextFrame([type |-> "session.update", config |-> [speed |-> "fast"]]),
     TextFrame([type |-> "session.update", config |-> EmptyMap]),
     TextFrame([type |-> "session.create", session |-> [voice |-> "echo"]]),
     TextFrame([type |-> "session.create", session |-> [instructions |-> "brief"]]),
     TextFrame([audio |-> "QUJD"])}

\* frames the upstream API sends to such a relay: every event type of
\* process_openai_message, with and without its payload fields
AllUpstreamFrames ==
    UpstreamFrames \cup
    {TextFrame([type |-> "response.text.done", text |-> "hi", item_id |-> "it1"]),
     TextFrame([type |-> "error", error |-> [message |-> "bad", code |-> "E1"]]),
     TextFrame([type |-> "session.created"]),
     TextFrame([type |-> "response.audio.done", item_id |-> "it1"]),
     TextFrame([type |-> "conversation.item.input_audio_transcription.completed",
                transcript |-> "hello"]),
     TextFrame([type |-> "response.text.delta", delta |-> "h", item_id |-> "it1"]),
     TextFrame([type |-> "response.audio.delta"]),
     TextFrame([type |-> "error"]),
     TextFrame([type |-> "response.done"])}

\* what a failed send to the client raises: WebSocketDisconnect, or another exception
\* (it depends on the ASGI server)
ClientSendErrors == {"WebSocketDisconnect", "Exception"}

\* the client_id websocket_realtime generates (uuid4)
EndpointClientId == "ws"

(* --------------------- asyncio.gather of the two loops ----------------- *)

\* a child of gather raises: the first exception is the one gather propagates,
\* a later one is dropped; the other child is left running
ChildRaises(kind) ==
    /\ gather_exc' = IF gather_exc = None THEN kind ELSE gather_exc
    /\ both_failed' = (both_failed \/ (pc = "gathering" /\ gather_exc # None))

LoopRunning(l) == l \notin {"idle", "returned", "raised"}

(* ----------------------- handle_client_messages ------------------------ *)

registryUnchanged == UNCHANGED regVars

\* one frame from websocket.iter_text(), up to the first await of its processing
ClientLoopReceive(f) ==
    /\ UNCHANGED <<callVars, codecVars>>
    /\ client_sent' = Append(client_sent, f)
    /\ UNCHANGED <<upstream_sent, listen_yielded>>
    /\ client_loop = "recv"
    /\ client_ws = "open"
    /\ client_frames < MaxClientFrames
    /\ client_frames' = client_frames + 1
    /\ IF f.frame = "bytes"
       THEN \* receive_text raises KeyError: the loop ends with it
            /\ client_loop' = "raised"
            /\ ChildRaises("Exception")
            /\ UNCHANGED <<client_loop_err, rcVars, upstream_recv, upstream_send_failed>>
       ELSE IF ~f.json
       THEN /\ client_loop' = "send_error"
            /\ client_loop_err' = "Invalid JSON format"
            /\ UNCHANGED <<gather_exc, both_failed, rcVars, upstream_recv,
                           upstream_send_failed>>
       ELSE LET call == RcCall(f.data) IN
            IF call.method = None
            THEN UNCHANGED <<client_loop, client_loop_err, gather_exc, both_failed,
                             rcVars, upstream_recv, upstream_send_failed>>
            ELSE IF openai_ws = None \/ ~is_connected
            THEN \* RuntimeError
                 /\ client_loop' = "send_error"
                 /\ client_loop_err' = "Message processing error"
                 /\ UNCHANGED <<gather_exc, both_failed, rcVars, upstream_recv,
                                upstream_send_failed>>
            ELSE /\ session_config' = ConfigAfter(call)
                 /\ UNCHANGED <<openai_ws, is_connected, gather_exc, both_failed>>
                 /\ IF openai_ws = "open"
                    THEN /\ upstream_recv' = Append(upstream_recv, FirstCommand(call))
                         /\ client_loop' = IF call.method = "commit_audio"
                                           THEN "send_response_create" ELSE "recv"
                         /\ UNCHANGED <<client_loop_err, upstream_send_failed>>
                    ELSE \* self.websocket.send raises ConnectionClosed
                         /\ client_loop' = "send_error"
                         /\ client_loop_err' = "Message processing error"
                         /\ upstream_send_failed' = TRUE
                         /\ UNCHANGED upstream_recv
    /\ UNCHANGED <<pc, handler_exc, ep_session, openai_loop, client_ws, client_recv,
                   upstream_frames, disconnect_calls, remove_calls, error_dropped>>
    /\ registryUnchanged

\* commit_audio: the second send
ClientLoopResponseCreate ==
    /\ UNCHANGED <<sentVars, callVars, codecVars>>
    /\ client_loop = "send_response_create"
    /\ IF openai_ws = "open"
       THEN /\ upstream_recv' = Append(upstream_recv, ResponseCreate)
            /\ client_loop' = "recv"
            /\ UNCHANGED <<client_loop_err, upstream_send_failed>>
       ELSE /\ client_loop' = "send_error"
            /\ client_loop_err' = "Message processing error"
            /\ upstream_send_failed' = TRUE
            /\ UNCHANGED upstream_recv
    /\ UNCHANGED <<handlerVars, openai_loop, rcVars, client_ws, client_recv, client_frames,
                   upstream_frames, disconnect_calls, remove_calls, error_dropped>>
    /\ registryUnchanged

\* (mutant) a handler that re-raises after reporting: the loop ends
ClientLoopSendErrorFatal ==
    /\ UNCHANGED <<sentVars, callVars, codecVars>>
    /\ client_loop = "send_error"
    /\ IF client_ws = "open"
       THEN /\ client_recv' = Append(client_recv, ServerErrorMessage(client_loop_err))
            /\ UNCHANGED error_dropped
       ELSE /\ error_dropped' = TRUE
            /\ UNCHANGED client_recv
    /\ client_loop' = "raised"
    /\ client_loop_err' = None
    /\ ChildRaises("Exception")
    /\ UNCHANGED <<pc, handler_exc, ep_session, openai_loop, rcVars, client_ws, upstream_recv,
                   client_frames, upstream_frames, disconnect_calls, remove_calls,
                   upstream_send_failed>>
    /\ UNCHANGED regVars

\* send_error_to_client, then the next iteration of the loop
ClientLoopSendError ==
    /\ UNCHANGED <<sentVars, callVars, codecVars>>
    /\ client_loop = "send_error"
    /\ IF client_ws = "open"
       THEN /\ client_recv' = Append(client_recv, ServerErrorMessage(client_loop_err))
            /\ UNCHANGED error_dropped
       ELSE \* "except Exception": logged only
            /\ error_dropped' = TRUE
            /\ UNCHANGED client_recv
    /\ client_loop' = "recv"
    /\ client_loop_err' = None
    /\ UNCHANGED <<handlerVars, openai_loop, rcVars, client_ws, upstream_recv, client_frames,
                   upstream_frames, disconnect_calls, remove_calls, upstream_send_failed>>
    /\ registryUnchanged

\* the client has disconnected: iter_text ends the iteration, the loop returns
ClientLoopEnd ==
    /\ UNCHANGED <<sentVars, callVars, codecVars>>
    /\ client_loop = "recv"
    /\ client_ws = "closed"
    /\ client_loop' = "returned"
    /\ UNCHANGED <<handlerVars, client_loop_err, openai_loop, rcVars, peerVars, histVars>>
    /\ registryUnchanged

(* ----------------- handle_openai_messages and listen ------------------- *)

\* listen: "if not self.websocket or not self.is_connected" raises RuntimeError
ListenNotConnected == openai_ws = None \/ ~is_connected

\* listen: the debug log's data.get('type', 'unknown') raises AttributeError when
\* json.loads returned a list; neither except clause of listen catches it
ListenRaises(f) == f.frame = "text" /\ f.json /\ "array" \in DOMAIN f

\* (mutant) a listen that yields nothing
ListenYieldsNothing(f) == FALSE

\* listen: a frame is yielded when it is a str ("isinstance(message, str)") that
\* json.loads accepts; any other frame is logged and the iteration continues
ListenYields(f) == f.frame = "text" /\ f.json /\ ~ListenRaises(f)

\* (mutant) a forwarder that writes each message ahead of the earlier ones
OpenAILoopReceiveReordered(f, err) ==
    /\ UNCHANGED <<callVars, codecVars>>
    /\ upstream_sent' = Append(upstream_sent, f)
    /\ listen_yielded' = IF ListenYields(f) THEN Append(listen_yielded, f.data)
                         ELSE listen_yielded
    /\ UNCHANGED client_sent
    /\ openai_loop = "listening"
    /\ openai_ws = "open"
    /\ upstream_frames < MaxUpstreamFrames
    /\ upstream_frames' = upstream_frames + 1
    /\ LET out == IF ListenYields(f)
                  THEN ClientMessageFor(f.data, ep_session)
                  ELSE [type |-> None]
       IN IF ListenRaises(f)
          THEN /\ openai_loop' = "raised"
               /\ ChildRaises("Exception")
               /\ UNCHANGED client_recv
          ELSE IF out.type = None
          THEN UNCHANGED <<openai_loop, gather_exc, both_failed, client_recv>>
          ELSE IF client_ws = "open"
          THEN /\ client_recv' = <<out>> \o client_recv
               /\ UNCHANGED <<openai_loop, gather_exc, both_failed>>
          ELSE /\ openai_loop' = "raised"
               /\ ChildRaises(err)
               /\ UNCHANGED client_recv
    /\ UNCHANGED <<pc, handler_exc, ep_session, client_loop, client_loop_err, rcVars,
                   client_ws, upstream_recv, client_frames, histVars>>
    /\ UNCHANGED regVars

\* one frame from the upstream connection, forwarded to the client if it has a projection
OpenAILoopReceive(f, err) ==
    /\ UNCHANGED <<callVars, codecVars>>
    /\ upstream_sent' = Append(upstream_sent, f)
    /\ listen_yielded' = IF ListenYields(f) THEN Append(listen_yielded, f.data)
                         ELSE listen_yielded
    /\ UNCHANGED client_sent
    /\ openai_loop = "listening"
    /\ openai_ws = "open"
    /\ upstream_frames < MaxUpstreamFrames
    /\ upstream_frames' = upstream_frames + 1
    /\ LET out == IF ListenYields(f)
                  THEN ClientMessageFor(f.data, ep_session)
                  ELSE [type |-> None]
       IN IF ListenRaises(f)
          THEN \* not a WebSocketException: is_connected stays as it is, and
               \* handle_openai_messages re-raises
               /\ openai_loop' = "raised"
               /\ ChildRaises("Exception")
               /\ UNCHANGED client_recv
          ELSE IF out.type = None
          THEN UNCHANGED <<openai_loop, gather_exc, both_failed, client_recv>>
          ELSE IF client_ws = "open"
          THEN /\ client_recv' = Append(client_recv, out)
               /\ UNCHANGED <<openai_loop, gather_exc, both_failed>>
          ELSE \* websocket.send_json raises
               /\ openai_loop' = "raised"
               /\ ChildRaises(err)
               /\ UNCHANGED client_recv
    /\ UNCHANGED <<pc, handler_exc, ep_session, client_loop, client_loop_err, rcVars,
                   client_ws, upstream_recv, client_frames, histVars>>
    /\ registryUnchanged

\* the upstream connection has closed: the iteration ends, or raises
OpenAIListenEnd ==
    /\ UNCHANGED <<sentVars, callVars, codecVars>>
    /\ openai_loop = "listening"
    /\ openai_ws \in {"closed_ok", "closed_error"}
    /\ IF openai_ws = "closed_ok"
       THEN /\ openai_loop' = "returned"
            /\ UNCHANGED <<gather_exc, both_failed, is_connected>>
       ELSE \* "except WebSocketException"
            /\ is_connected' = FALSE
            /\ openai_loop' = "raised"
            /\ ChildRaises("Exception")
    /\ UNCHANGED <<pc, handler_exc, ep_session, client_loop, client_loop_err, openai_ws,
                   session_config, peerVars, histVars>>
    /\ registryUnchanged

(* ----------------------------- environment ----------------------------- *)

ClientDisconnect ==
    /\ UNCHANGED <<sentVars, callVars, codecVars>>
    /\ client_ws = "open"
    /\ client_ws' = "closed"
    /\ UNCHANGED <<handlerVars, loopVars, rcVars, client_recv, upstream_recv, client_frames,
                   upstream_frames, histVars>>
    /\ registryUnchanged

\* the upstream API closes the connection (how = "closed_ok"), or the transport fails
UpstreamClose(how) ==
    /\ UNCHANGED <<sentVars, callVars, codecVars>>
    /\ openai_ws = "open"
    /\ openai_ws' = how
    /\ UNCHANGED <<handlerVars, loopVars, is_connected, session_config, peerVars, histVars>>
    /\ registryUnchanged

(* -------- websocket_realtime and handle_websocket_connection ----------- *)

\* websocket_realtime: accept, then create_session with a fresh client_id
EndpointCreateSession ==
    /\ UNCHANGED <<sentVars, callVars, codecVars>>
    /\ pc = "accept"
    /\ create_session(EndpointClientId, None)
    /\ ep_session' = next_id
    /\ pc' = "send_established"
    /\ UNCHANGED <<regConfigVars, shutdown_pc, now>>
    /\ UNCHANGED <<handler_exc, gather_exc, both_failed, loopVars, rcVars, peerVars,
                   histVars>>

\* websocket_realtime: send connection.established; outside the try, so a failure
\* leaves the function at once
EndpointSendEstablished(err) ==
    /\ UNCHANGED <<sentVars, callVars, codecVars>>
    /\ pc = "send_established"
    /\ IF client_ws = "open"
       THEN /\ client_recv' = Append(client_recv, ConnectionEstablished(ep_session))
            /\ pc' = "connect"
            /\ UNCHANGED handler_exc
       ELSE /\ pc' = "aborted"
            /\ handler_exc' = err
            /\ UNCHANGED client_recv
    /\ UNCHANGED <<ep_session, gather_exc, both_failed, loopVars, rcVars, client_ws,
                   upstream_recv, client_frames, upstream_frames, histVars>>
    /\ registryUnchanged

\* OpenAIRealtimeClient.connect: websockets.connect succeeds or raises
RealtimeConnect(ok) ==
    /\ UNCHANGED <<sentVars, callVars, codecVars>>
    /\ pc = "connect"
    /\ IF ok
       THEN /\ openai_ws' = "open"
            /\ is_connected' = TRUE
            /\ pc' = "init_session"
            /\ UNCHANGED handler_exc
       ELSE /\ is_connected' = FALSE
            /\ pc' = "hwc_finally"
            /\ handler_exc' = "Exception"
            /\ UNCHANGED openai_ws
    /\ UNCHANGED <<ep_session, gather_exc, both_failed, loopVars, session_config, peerVars,
                   histVars>>
    /\ registryUnchanged

\* OpenAIRealtimeClient.connect: _initialize_session sends the session config
RealtimeInitializeSession ==
    /\ UNCHANGED <<sentVars, callVars, codecVars>>
    /\ pc = "init_session"
    /\ IF openai_ws = "open"
       THEN /\ upstream_recv' = Append(upstream_recv, SessionInitCommand)
            /\ pc' = "gather"
            /\ UNCHANGED <<handler_exc, is_connected>>
       ELSE /\ is_connected' = FALSE
            /\ pc' = "hwc_finally"
            /\ handler_exc' = "Exception"
            /\ UNCHANGED upstream_recv
    /\ UNCHANGED <<ep_session, gather_exc, both_failed, loopVars, openai_ws, session_config,
                   client_ws, client_recv, client_frames, upstream_frames, histVars>>
    /\ registryUnchanged

\* handle_websocket_connection: asyncio.gather starts the two loops; each runs up to
\* its first await (the read of the next frame) before anything else happens
GatherStart ==
    /\ UNCHANGED <<sentVars, callVars, codecVars>>
    /\ pc = "gather"
    /\ pc' = "gathering"
    /\ client_loop' = "recv"
    /\ IF ListenNotConnected
       THEN openai_loop' = "raised" /\ ChildRaises("Exception")
       ELSE openai_loop' = "listening" /\ UNCHANGED <<gather_exc, both_failed>>
    /\ UNCHANGED <<handler_exc, ep_session, client_loop_err, rcVars, peerVars, histVars>>
    /\ registryUnchanged

\* asyncio.gather is done once a child has raised, or once both have returned
GatherDone ==
    \/ gather_exc # None
    \/ client_loop = "returned" /\ openai_loop = "returned"

\* handle_websocket_connection: the await of gather ends
GatherResume ==
    /\ UNCHANGED <<sentVars, callVars, codecVars>>
    /\ pc = "gathering"
    /\ GatherDone
    /\ handler_exc' = gather_exc
    /\ pc' = "hwc_finally"
    /\ UNCHANGED <<ep_session, gather_exc, both_failed, loopVars, rcVars, peerVars,
                   histVars>>
    /\ registryUnchanged

\* (mutant) a disconnect that calls close() whatever the state of the websocket
ClosedByDisconnectAlways(ws) == "closed_ok"

\* disconnect: "if self.websocket and not self.websocket.closed: await
\* self.websocket.close()": the websocket it leaves
ClosedByDisconnect(ws) == IF ws = "open" THEN "closed_ok" ELSE ws

\* OpenAIRealtimeClient.disconnect, called once more by an owner of the client
RealtimeDisconnect ==
    /\ UNCHANGED <<sentVars, callVars, codecVars>>
    /\ pc \notin {"accept", "send_established"}
    /\ disconnect_calls < MaxDisconnects
    /\ openai_ws' = ClosedByDisconnect(openai_ws)
    /\ is_connected' = FALSE
    /\ disconnect_calls' = disconnect_calls + 1
    /\ UNCHANGED <<handlerVars, loopVars, session_config, peerVars, remove_calls,
                   upstream_send_failed, error_dropped>>
    /\ registryUnchanged

\* (mutant) the disconnect placed after the gather instead of in a "finally": an
\* exception skips it
HandlerDisconnectNotInFinally ==
    /\ UNCHANGED <<sentVars, callVars, codecVars>>
    /\ pc = "hwc_finally"
    /\ IF handler_exc = None
       THEN /\ openai_ws' = ClosedByDisconnect(openai_ws)
            /\ is_connected' = FALSE
            /\ disconnect_calls' = disconnect_calls + 1
       ELSE UNCHANGED <<openai_ws, is_connected, disconnect_calls>>
    /\ pc' = IF handler_exc = "Exception" THEN "ep_except" ELSE "ep_finally"
    /\ handler_exc' = IF handler_exc = "WebSocketDisconnect" THEN None ELSE handler_exc
    /\ UNCHANGED <<ep_session, gather_exc, both_failed, loopVars,
                   session_config, peerVars, remove_calls, upstream_send_failed,
                   error_dropped>>
    /\ UNCHANGED regVars

\* handle_websocket_connection, "finally": realtime_client.disconnect(); the
\* exception, if any, is re-raised to websocket_realtime, which catches a
\* WebSocketDisconnect and goes on to report any other exception
HandlerFinally ==
    /\ UNCHANGED <<sentVars, callVars, codecVars>>
    /\ pc = "hwc_finally"
    /\ openai_ws' = ClosedByDisconnect(openai_ws)
    /\ is_connected' = FALSE
    /\ disconnect_calls' = disconnect_calls + 1
    /\ pc' = IF handler_exc = "Exception" THEN "ep_except" ELSE "ep_finally"
    /\ handler_exc' = IF handler_exc = "WebSocketDisconnect" THEN None ELSE handler_exc
    /\ UNCHANGED <<ep_session, gather_exc, both_failed, loopVars,
                   session_config, peerVars, remove_calls, upstream_send_failed,
                   error_dropped>>
    /\ registryUnchanged

\* handle_websocket_connection, "finally", up to the await inside disconnect():
\* an open websocket starts its closing handshake and the handler is suspended in
\* "await self.websocket.close()", is_connected still being True; with no open
\* websocket disconnect() has no await and runs to its end
HandlerFinallyBegin ==
    /\ UNCHANGED <<sentVars, callVars, codecVars>>
    /\ pc = "hwc_finally"
    /\ disconnect_calls' = disconnect_calls + 1
    /\ IF openai_ws = "open"
       THEN /\ openai_ws' = "closing"
            /\ pc' = "hwc_disconnecting"
            /\ UNCHANGED <<is_connected, handler_exc>>
       ELSE /\ is_connected' = FALSE
            /\ pc' = IF handler_exc = "Exception" THEN "ep_except" ELSE "ep_finally"
            /\ handler_exc' = IF handler_exc = "WebSocketDisconnect" THEN None
                              ELSE handler_exc
            /\ UNCHANGED openai_ws
    /\ UNCHANGED <<ep_session, gather_exc, both_failed, loopVars,
                   session_config, peerVars, remove_calls, upstream_send_failed,
                   error_dropped>>
    /\ registryUnchanged

\* disconnect(): close() has returned, "self.is_connected = False", and the handler
\* leaves its finally clause
HandlerFinallyEnd ==
    /\ UNCHANGED <<sentVars, callVars, codecVars>>
    /\ pc = "hwc_disconnecting"
    /\ openai_ws' = "closed_ok"
    /\ is_connected' = FALSE
    /\ pc' = IF handler_exc = "Exception" THEN "ep_except" ELSE "ep_finally"
    /\ handler_exc' = IF handler_exc = "WebSocketDisconnect" THEN None ELSE handler_exc
    /\ UNCHANGED <<ep_session, gather_exc, both_failed, loopVars,
                   session_config, peerVars, histVars>>
    /\ registryUnchanged

\* websocket_realtime, "except Exception": report the error to the client
EndpointReportError(err) ==
    /\ UNCHANGED <<sentVars, callVars, codecVars>>
    /\ pc = "ep_except"
    /\ IF client_ws = "open"
       THEN /\ client_recv' = Append(client_recv, WebSocketErrorMessage)
            /\ handler_exc' = None
       ELSE /\ handler_exc' = err
            /\ UNCHANGED client_recv
    /\ pc' = "ep_finally"
    /\ UNCHANGED <<ep_session, gather_exc, both_failed, loopVars, rcVars, client_ws,
                   upstream_recv, client_frames, upstream_frames, histVars>>
    /\ registryUnchanged

\* websocket_realtime, "finally": remove_session
EndpointFinally ==
    /\ UNCHANGED <<sentVars, callVars, codecVars>>
    /\ pc = "ep_finally"
    /\ remove_session(ep_session)
    /\ remove_calls' = remove_calls + 1
    /\ pc' = "done"
    /\ UNCHANGED <<cleanup_task, wake_at, regConfigVars, shutdown_pc, now, next_id>>
    /\ UNCHANGED <<handler_exc, ep_session, gather_exc, both_failed, loopVars, rcVars,
                   peerVars, disconnect_calls, upstream_send_failed, error_dropped>>

\* the endpoint handler has left websocket_realtime
HandlerFinished == pc \in {"done", "aborted"}

(* ---------------------------- AudioProcessor --------------------------- *)

\* binascii: the base64 alphabet, table_b2a_base64
B64Table ==
    <<"A", "B", "C", "D", "E", "F", "G", "H", "I", "J", "K", "L", "M", "N", "O", "P",
      "Q", "R", "S", "T", "U", "V", "W", "X", "Y", "Z", "a", "b", "c", "d", "e", "f",
      "g", "h", "i", "j", "k", "l", "m", "n", "o", "p", "q", "r", "s", "t", "u", "v",
      "w", "x", "y", "z", "0", "1", "2", "3", "4", "5", "6", "7", "8", "9", "+", "/">>

\* binascii: table_a2b_base64, the value of a character, 64 for one outside the
\* alphabet
B64Value(ch) ==
    IF \E i \in DOMAIN B64Table : B64Table[i] = ch
    THEN (CHOOSE i \in DOMAIN B64Table : B64Table[i] = ch) - 1
    ELSE 64

\* binascii.b2a_base64: the characters emitted while at least six bits are held
RECURSIVE B64Sextets(_, _)
B64Sextets(leftchar, leftbits) ==
    IF leftbits < 6 THEN <<>>
    ELSE <<B64Table[((leftchar \div (2 ^ (leftbits - 6))) % 64) + 1]>>
            \o B64Sextets(leftchar, leftbits - 6)

\* binascii.b2a_base64 (newline=False), as base64.b64encode calls it: the loop over
\* the bytes and the padding of the bits left over
RECURSIVE b2a_base64(_, _, _)
b2a_base64(data, leftchar, leftbits) ==
    IF data = <<>>
    THEN IF leftbits = 2 THEN <<B64Table[(leftchar % 4) * 16 + 1], "=", "=">>
         ELSE IF leftbits = 4 THEN <<B64Table[(leftchar % 16) * 4 + 1], "=">>
         ELSE <<>>
    ELSE LET lc == leftchar * 256 + Head(data)
             lb == leftbits + 8 IN
         B64Sextets(lc, lb) \o b2a_base64(Tail(data), lc % (2 ^ (lb % 6)), lb % 6)

\* what decode_audio returns (ok) or raises (binascii.Error)
Decoded(ok, bytes) == [ok |-> ok, bytes |-> bytes]

\* binascii.a2b_base64 (strict_mode=False), as base64.b64decode calls it: characters
\* outside the alphabet are skipped, a completed pad sequence ends the parse, and
\* an incomplete quad at the end raises
RECURSIVE a2b_base64(_, _, _, _, _)
a2b_base64(ascii, quad_pos, leftchar, pads, bin) ==
    IF ascii = <<>>
    THEN Decoded(quad_pos = 0, bin)
    ELSE LET this_ch == Head(ascii)
             v == B64Value(this_ch) IN
         IF this_ch = "="
         THEN IF quad_pos >= 2 /\ quad_pos + pads + 1 >= 4
              THEN Decoded(TRUE, bin)
              ELSE a2b_base64(Tail(ascii), quad_pos, leftchar,
                              IF quad_pos >= 2 THEN pads + 1 ELSE pads, bin)
         ELSE IF v >= 64
         THEN a2b_base64(Tail(ascii), quad_pos, leftchar, pads, bin)
         ELSE CASE quad_pos = 0 -> a2b_base64(Tail(ascii), 1, v, 0, bin)
                [] quad_pos = 1 -> a2b_base64(Tail(ascii), 2, v % 16, 0,
                                        Append(bin, (leftchar * 4 + v \div 16) % 256))
                [] quad_pos = 2 -> a2b_base64(Tail(ascii), 3, v % 4, 0,
                                        Append(bin, (leftchar * 16 + v \div 4) % 256))
                [] quad_pos = 3 -> a2b_base64(Tail(ascii), 0, 0, 0,
                                        Append(bin, (leftchar * 64 + v) % 256))

\* (mutant) an encoder that leaves the padding out
encode_audioUnpadded(bytes) ==
    SelectSeq(b2a_base64(bytes, 0, 0), LAMBDA ch : ch # "=")

\* encode_audio: base64.b64encode(audio_bytes).decode("utf-8"), whatever the format
encode_audio(bytes) == b2a_base64(bytes, 0, 0)

\* decode_audio: base64.b64decode(audio_base64)
decode_audio(base64) == a2b_base64(base64, 0, 0, 0, <<>>)

\* the byte values and the buffers given to the codec
ByteValues == {0, 63, 65, 128, 255}

RECURSIVE BuffersOfLen(_)
BuffersOfLen(n) ==
    IF n = 0 THEN {<<>>}
    ELSE {Append(b, x) : b \in BuffersOfLen(n - 1), x \in ByteValues}

ByteBuffers == UNION {BuffersOfLen(n) : n \in 0..MaxBufferLen}

\* AudioProcessor.encode_audio(audio_bytes)
EncodeAudio ==
    /\ codec_pc = "input"
    /\ audio_base64' = encode_audio(audio_bytes)
    /\ codec_pc' = "encoded"
    /\ UNCHANGED <<audio_bytes, audio_decoded>>
    /\ UNCHANGED <<regVars, relayVars, callVars>>

\* AudioProcessor.decode_audio(audio_base64)
DecodeAudio ==
    /\ codec_pc = "encoded"
    /\ audio_decoded' = decode_audio(audio_base64)
    /\ codec_pc' = "decoded"
    /\ UNCHANGED <<audio_bytes, audio_base64>>
    /\ UNCHANGED <<regVars, relayVars, callVars>>

(* ------------- SessionManager called by concurrent handlers ------------ *)

\* the coroutines (session handlers) that call the registry on one event loop
Handlers == {1, 2}

\* what a handler outside a call holds in place of a snapshot
NoSnapshot ==
    [sessions |-> EmptyMap, client_to_session |-> EmptyMap, next_id |-> 0,
     cleanup_task |-> "None"]

\* the registry as a call finds it when it is entered
Snapshot ==
    [sessions |-> sessions, client_to_session |-> client_to_session, next_id |-> next_id,
     cleanup_task |-> cleanup_task]

\* the locals of one call: position, arguments, the kwargs items still to apply,
\* the result once returned, and the registry as the call found it
Call(p, op, cid, sid, kwargs, todo, result, pre) ==
    [pc |-> p, op |-> op, cid |-> cid, sid |-> sid, kwargs |-> kwargs, todo |-> todo,
     result |-> result, pre |-> pre]

IdleCall == Call("idle", "none", "", 0, <<>>, <<>>, "none", NoSnapshot)

\* (mutant) registry methods that give up the event loop between any two statements
MethodSuspendsAnywhere(c) == TRUE

\* create_session and update_session are plain "def" methods without an await: a
\* coroutine that has entered one is never suspended inside it
MethodSuspends(c) == FALSE

\* the handler is inside a registry call
InCall(t) == calls[t].pc # "idle"

\* the event loop runs one coroutine at a time and switches only where the running
\* one is suspended: t can take a step when no other handler is inside a call
\* that has not suspended
CanRun(t) == \A u \in Handlers \ {t} : InCall(u) => MethodSuspends(calls[u])

\* **kwargs as callers pass them: the items in order
ConcurrentKwargs ==
    {<< <<"openai_session_id", "oa1">>, <<"conversation_id", "cv1">> >>,
     << <<"openai_session_id", "oa2">>, <<"conversation_id", "cv2">> >>,
     << <<"client_id", "b">> >>}

\* the dict of a kwargs sequence
KwargsMap(kw) ==
    [f \in {kw[i][1] : i \in DOMAIN kw} |->
        LET i == CHOOSE j \in DOMAIN kw : kw[j][1] = f IN kw[i][2]]

\* create_session, lines 77-86: the duplicate check, which raises or falls through
HandlerCreateCheck(t, cid) ==
    /\ UNCHANGED <<relayVars, codecVars>>
    /\ calls[t].pc = "idle"
    /\ CanRun(t)
    /\ next_id + Cardinality({u \in Handlers : calls[u].pc = "create_store"}) <= MaxSessions
    /\ IF ActiveSessionExists(cid)
       THEN /\ calls' = [calls EXCEPT ![t] =
                    Call("idle", "create", cid, 0, <<>>, <<>>, "ValueError", NoSnapshot)]
            /\ lastOp' = Op("create", cid, "ValueError")
       ELSE /\ calls' = [calls EXCEPT ![t] =
                    Call("create_store", "create", cid, 0, <<>>, <<>>, "none", Snapshot)]
            /\ lastOp' = Op("inside", t, "create_store")
    /\ UNCHANGED <<sessions, client_to_session, cleanup_task, wake_at, next_id,
                   regConfigVars, shutdown_pc, now>>

\* create_session, lines 88-105: the session is built and stored under both maps
HandlerCreateStore(t) ==
    /\ UNCHANGED <<relayVars, codecVars>>
    /\ calls[t].pc = "create_store"
    /\ CanRun(t)
    /\ sessions' = MapPut(sessions, next_id,
            NewSession(next_id, calls[t].cid, now, SessionConfigDefaults))
    /\ client_to_session' = MapPut(client_to_session, calls[t].cid, next_id)
    /\ next_id' = next_id + 1
    /\ calls' = [calls EXCEPT ![t].pc = "create_task", ![t].sid = next_id]
    /\ lastOp' = Op("inside", t, "create_task")
    /\ UNCHANGED <<cleanup_task, wake_at, regConfigVars, shutdown_pc, now>>

\* create_session, lines 107-111: the background task is started if needed; return
HandlerCreateReturn(t) ==
    /\ UNCHANGED <<relayVars, codecVars>>
    /\ calls[t].pc = "create_task"
    /\ CanRun(t)
    /\ IF CleanupTaskNeedsStart
       THEN cleanup_task' = "sleeping" /\ wake_at' = now + cleanup_interval
       ELSE UNCHANGED <<cleanup_task, wake_at>>
    /\ calls' = [calls EXCEPT ![t].pc = "idle", ![t].result = "created",
                              ![t].pre = NoSnapshot]
    /\ lastOp' = Op("create", calls[t].cid, "created")
    /\ UNCHANGED <<sessions, client_to_session, next_id, regConfigVars, shutdown_pc, now>>

\* update_session, lines 158-170: the lookup, which returns False or falls through
HandlerUpdateLookup(t, sid, kwargs) ==
    /\ UNCHANGED <<relayVars, codecVars>>
    /\ calls[t].pc = "idle"
    /\ CanRun(t)
    /\ IF sid \notin DOMAIN sessions
       THEN /\ calls' = [calls EXCEPT ![t] =
                    Call("idle", "update", "", sid, kwargs, <<>>, "False", NoSnapshot)]
            /\ lastOp' = Op("update", sid, FALSE)
       ELSE /\ calls' = [calls EXCEPT ![t] =
                    Call("update_loop", "update", "", sid, kwargs, kwargs, "none", Snapshot)]
            /\ lastOp' = Op("inside", t, "update_loop")
    /\ UNCHANGED <<sessions, client_to_session, cleanup_task, wake_at, next_id,
                   regConfigVars, shutdown_pc, now>>

\* update_session, lines 172-175: one turn of the loop over kwargs.items()
HandlerUpdateSetattr(t) ==
    /\ UNCHANGED <<relayVars, codecVars>>
    /\ calls[t].pc = "update_loop"
    /\ calls[t].todo # <<>>
    /\ CanRun(t)
    /\ LET sid == calls[t].sid
           field == Head(calls[t].todo)[1]
           value == Head(calls[t].todo)[2] IN
       IF field \in allowed_fields /\ field \in DOMAIN sessions[sid]
       THEN sessions' = [sessions EXCEPT ![sid][field] = value]
       ELSE UNCHANGED sessions
    /\ calls' = [calls EXCEPT ![t].todo = Tail(calls[t].todo)]
    /\ lastOp' = Op("inside", t, "update_loop")
    /\ UNCHANGED <<client_to_session, cleanup_task, wake_at, next_id, regConfigVars,
                   shutdown_pc, now>>

\* update_session, lines 177-181: last_activity is refreshed; return True
HandlerUpdateReturn(t) ==
    /\ UNCHANGED <<relayVars, codecVars>>
    /\ calls[t].pc = "update_loop"
    /\ calls[t].todo = <<>>
    /\ CanRun(t)
    /\ sessions' = [sessions EXCEPT ![calls[t].sid] =
            TouchUnlessGiven(@, KwargsMap(calls[t].kwargs), now)]
    /\ calls' = [calls EXCEPT ![t].pc = "idle", ![t].result = "True",
                              ![t].pre = NoSnapshot]
    /\ lastOp' = Op("update", calls[t].sid, TRUE)
    /\ UNCHANGED <<client_to_session, cleanup_task, wake_at, next_id, regConfigVars,
                   shutdown_pc, now>>

(* --------------------------- specifications ---------------------------- *)

\* SessionManager.__init__
RegInit ==
    /\ sessions = EmptyMap
    /\ client_to_session = EmptyMap
    /\ cleanup_task = "None"
    /\ wake_at = 0
    /\ cleanup_interval = DefaultCleanupInterval
    /\ session_timeout = DefaultSessionTimeout
    /\ shutdown_pc = "idle"
    /\ now = 0
    /\ next_id = 1
    /\ lastOp = Op("init", {}, TRUE)

\* the state when the ASGI server calls websocket_realtime: nothing of the relay exists
RelayInit ==
    /\ pc = "accept"
    /\ handler_exc = None
    /\ ep_session = None
    /\ gather_exc = None
    /\ both_failed = FALSE
    /\ client_loop = "idle"
    /\ client_loop_err = None
    /\ openai_loop = "idle"
    /\ openai_ws = None
    /\ is_connected = FALSE
    /\ session_config = InitialSessionConfig
    /\ client_ws = "open"
    /\ client_recv = <<>>
    /\ upstream_recv = <<>>
    /\ client_frames = 0
    /\ upstream_frames = 0
    /\ disconnect_calls = 0
    /\ remove_calls = 0
    /\ upstream_send_failed = FALSE
    /\ error_dropped = FALSE
    /\ client_sent = <<>>
    /\ upstream_sent = <<>>
    /\ listen_yielded = <<>>

\* no handler is inside a registry call
CallInit == calls = [t \in Handlers |-> IdleCall]

\* the codec has been given nothing
CodecIdle ==
    /\ codec_pc = "input"
    /\ audio_bytes = <<>>
    /\ audio_base64 = <<>>
    /\ audio_decoded = Decoded(TRUE, <<>>)

Init == RegInit /\ RelayInit /\ CallInit /\ CodecIdle

\* the codec given any buffer of up to MaxBufferLen bytes
CodecInit ==
    /\ RegInit /\ RelayInit /\ CallInit
    /\ codec_pc = "input"
    /\ audio_bytes \in ByteBuffers
    /\ audio_base64 = <<>>
    /\ audio_decoded = Decoded(TRUE, <<>>)

CodecNext == EncodeAudio \/ DecodeAudio

CodecSpec == CodecInit /\ [][CodecNext]_vars

\* keyword arguments Spec passes to update_session
LifecycleKwargs ==
    {[is_active |-> b] : b \in BOOLEAN}
    \cup {[last_activity |-> t] : t \in Times}
    \cup {[bogus |-> TRUE]}

\* the registry, called by arbitrary callers
Next ==
    \/ \E cid \in ClientIds : CreateSession(cid, None)
    \/ \E sid \in SessionIds, kw \in LifecycleKwargs : UpdateSession(sid, kw)
    \/ \E sid \in SessionIds : UpdateLastActivity(sid)
    \/ \E sid \in SessionIds : RemoveSession(sid)
    \/ \E sid \in SessionIds : DeactivateSession(sid)
    \/ CleanupInactiveSessions
    \/ CleanupTaskCancelled
    \/ Shutdown
    \/ ShutdownResume

Spec == Init /\ [][Next]_vars

\* frames the upstream API sends to a relay that is torn down
TeardownUpstreamFrames == UpstreamFrames \cup {JsonArrayFrame}

\* one connection served by websocket_realtime, the handler's disconnect() taken
\* in the two steps its await divides it into
TeardownNext ==
    \/ EndpointCreateSession
    \/ \E err \in ClientSendErrors : EndpointSendEstablished(err)
    \/ RealtimeConnect(TRUE)
    \/ RealtimeInitializeSession
    \/ GatherStart
    \/ GatherResume
    \/ HandlerFinallyBegin
    \/ HandlerFinallyEnd
    \/ \E err \in ClientSendErrors : EndpointReportError(err)
    \/ EndpointFinally
    \/ \E f \in ClientFrames : ClientLoopReceive(f)
    \/ ClientLoopResponseCreate
    \/ ClientLoopSendError
    \/ \E f \in TeardownUpstreamFrames, err \in ClientSendErrors : OpenAILoopReceive(f, err)
    \/ OpenAIListenEnd
    \/ \E how \in {"closed_ok", "closed_error"} : UpstreamClose(how)

TeardownSpec == Init /\ [][TeardownNext]_vars

\* the registry while callers create, deactivate and remove sessions and sweep,
\* with no shutdown
RemoveNext ==
    \/ \E cid \in ClientIds : CreateSession(cid, None)
    \/ \E sid \in SessionIds : RemoveSession(sid)
    \/ \E sid \in SessionIds : DeactivateSession(sid)
    \/ CleanupInactiveSessions

RemoveSpec == Init /\ [][RemoveNext]_vars

\* the registry called by two handlers of one event loop, each call taken
\* statement by statement
ConcurrentNext ==
    \/ \E t \in Handlers, cid \in ClientIds : HandlerCreateCheck(t, cid)
    \/ \E t \in Handlers : HandlerCreateStore(t)
    \/ \E t \in Handlers : HandlerCreateReturn(t)
    \/ \E t \in Handlers, sid \in SessionIds, kw \in ConcurrentKwargs :
            HandlerUpdateLookup(t, sid, kw)
    \/ \E t \in Handlers : HandlerUpdateSetattr(t)
    \/ \E t \in Handlers : HandlerUpdateReturn(t)

ConcurrentSpec == Init /\ [][ConcurrentNext]_vars

\* keyword arguments MapSpec passes to update_session
MapKwargs == {[is_active |-> b] : b \in BOOLEAN} \cup {[client_id |-> "b"]}

\* the registry while sessions of two clients are created, activated, deactivated,
\* renamed (in vain), removed and swept, and the registry is shut down
MapNext ==
    \/ \E cid \in ClientIds : CreateSession(cid, None)
    \/ \E sid \in SessionIds, kw \in MapKwargs : UpdateSession(sid, kw)
    \/ \E sid \in SessionIds : RemoveSession(sid)
    \/ CleanupInactiveSessions
    \/ CleanupTaskCancelled
    \/ Shutdown
    \/ ShutdownResume

MapSpec == Init /\ [][MapNext]_vars

\* the registry while sessions come and go, the two limits are set and the
\* statistics are read
StatsNext ==
    \/ \E cid \in ClientIds : CreateSession(cid, None)
    \/ \E sid \in SessionIds : DeactivateSession(sid)
    \/ \E sid \in SessionIds : RemoveSession(sid)
    \/ CleanupInactiveSessions
    \/ \E v \in IntervalValues : SetCleanupInterval(v)
    \/ \E v \in TimeoutValues : SetSessionTimeout(v)
    \/ GetStats

StatsSpec == Init /\ [][StatsNext]_vars

\* one connection served by websocket_realtime
RelayNext ==
    \/ EndpointCreateSession
    \/ \E err \in ClientSendErrors : EndpointSendEstablished(err)
    \/ \E ok \in BOOLEAN : RealtimeConnect(ok)
    \/ RealtimeInitializeSession
    \/ GatherStart
    \/ GatherResume
    \/ HandlerFinally
    \/ \E err \in ClientSendErrors : EndpointReportError(err)
    \/ EndpointFinally
    \/ \E f \in ClientFrames : ClientLoopReceive(f)
    \/ ClientLoopResponseCreate
    \/ ClientLoopSendError
    \/ ClientLoopEnd
    \/ \E f \in UpstreamFrames, err \in ClientSendErrors : OpenAILoopReceive(f, err)
    \/ OpenAIListenEnd
    \/ ClientDisconnect
    \/ \E how \in {"closed_ok", "closed_error"} : UpstreamClose(how)

RelaySpec == Init /\ [][RelayNext]_vars

\* one connection served by websocket_realtime while the client stays connected and
\* the upstream API accepts the connection and keeps it open; the client sends
\* messages of every type
PumpNext ==
    \/ EndpointCreateSession
    \/ \E err \in ClientSendErrors : EndpointSendEstablished(err)
    \/ RealtimeConnect(TRUE)
    \/ RealtimeInitializeSession
    \/ GatherStart
    \/ GatherResume
    \/ HandlerFinally
    \/ \E err \in ClientSendErrors : EndpointReportError(err)
    \/ EndpointFinally
    \/ \E f \in AllClientFrames : ClientLoopReceive(f)
    \/ ClientLoopResponseCreate
    \/ ClientLoopSendError
    \/ \E f \in UpstreamFrames, err \in ClientSendErrors : OpenAILoopReceive(f, err)
    \/ OpenAIListenEnd

PumpSpec == Init /\ [][PumpNext]_vars

\* the same, with the upstream API sending events of every type
EventPumpNext ==
    \/ EndpointCreateSession
    \/ \E err \in ClientSendErrors : EndpointSendEstablished(err)
    \/ RealtimeConnect(TRUE)
    \/ RealtimeInitializeSession
    \/ GatherStart
    \/ GatherResume
    \/ HandlerFinally
    \/ \E err \in ClientSendErrors : EndpointReportError(err)
    \/ EndpointFinally
    \/ \E f \in ClientFrames : ClientLoopReceive(f)
    \/ ClientLoopResponseCreate
    \/ ClientLoopSendError
    \/ \E f \in AllUpstreamFrames, err \in ClientSendErrors : OpenAILoopReceive(f, err)
    \/ OpenAIListenEnd

EventPumpSpec == Init /\ [][EventPumpNext]_vars

\* keyword arguments FieldSpec passes to update_session: the session's data fields
FieldKwargs ==
    {kw \in UpdateKwargs : DOMAIN kw \cap {"is_active", "last_activity"} = {}}

\* the registry, called to create sessions with or without a config, to update
\* their fields and to remove them
FieldNext ==
    \/ \E cid \in ClientIds, cfg \in CreateConfigs : CreateSession(cid, cfg)
    \/ \E sid \in SessionIds, kw \in FieldKwargs : UpdateSession(sid, kw)
    \/ \E sid \in SessionIds : RemoveSession(sid)

FieldSpec == Init /\ [][FieldNext]_vars

\* the client whose sessions TimedSpec follows
TimedClientIds == {"a"}

\* the registry while time passes: sessions of one client are created, touched and
\* deactivated, the two durations are set, and sessions are swept by callers and
\* by the background task
TimedNext ==
    \/ \E cid \in TimedClientIds : CreateSession(cid, None)
    \/ \E sid \in SessionIds : UpdateLastActivity(sid)
    \/ \E sid \in SessionIds : DeactivateSession(sid)
    \/ CleanupInactiveSessions
    \/ PeriodicCleanup
    \/ \E v \in IntervalValues : SetCleanupInterval(v)
    \/ \E v \in TimeoutValues : SetSessionTimeout(v)
    \/ Tick

TimedSpec == Init /\ [][TimedNext]_vars

\* one connection served by websocket_realtime, whose upstream client is also
\* disconnected by other owners at any time, before and after the handler's own
\* disconnect
DisconnectNext ==
    \/ EndpointCreateSession
    \/ \E err \in ClientSendErrors : EndpointSendEstablished(err)
    \/ \E ok \in BOOLEAN : RealtimeConnect(ok)
    \/ RealtimeInitializeSession
    \/ GatherStart
    \/ GatherResume
    \/ HandlerFinally
    \/ \E err \in ClientSendErrors : EndpointReportError(err)
    \/ EndpointFinally
    \/ \E f \in ClientFrames : ClientLoopReceive(f)
    \/ ClientLoopResponseCreate
    \/ ClientLoopSendError
    \/ OpenAIListenEnd
    \/ \E how \in {"closed_ok", "closed_error"} : UpstreamClose(how)
    \/ RealtimeDisconnect

DisconnectSpec == Init /\ [][DisconnectNext]_vars

\* the registry while time passes and callers set last_activity, to now or to a
\* time they supply
ActivityNext ==
    \/ \E cid \in TimedClientIds : CreateSession(cid, None)
    \/ \E sid \in SessionIds, t \in Times : UpdateSession(sid, [last_activity |-> t])
    \/ \E sid \in SessionIds : UpdateLastActivity(sid)
    \/ \E sid \in SessionIds : DeactivateSession(sid)
    \/ Tick

ActivitySpec == Init /\ [][ActivityNext]_vars

\* the registry and its background task while time passes: sessions of one client
\* are created, deactivated and removed, and the two durations are shortened
SweepTaskNext ==
    \/ \E cid \in TimedClientIds : CreateSession(cid, None)
    \/ \E sid \in SessionIds : DeactivateSession(sid)
    \/ \E sid \in SessionIds : RemoveSession(sid)
    \/ PeriodicCleanup
    \/ SetCleanupInterval(1)
    \/ SetSessionTimeout(1)
    \/ Tick

SweepTaskSpec == Init /\ [][SweepTaskNext]_vars

\* SweepTaskSpec with the clock advancing and the event loop resuming the background
\* task whenever its asyncio.sleep is due
SweepTaskFairSpec == SweepTaskSpec /\ WF_vars(Tick) /\ WF_vars(PeriodicCleanup)

\* one connection served by websocket_realtime while time passes: both connections
\* stay open, the two durations are set, and the background task sweeps the registry
RelayClockNext ==
    \/ EndpointCreateSession
    \/ \E err \in ClientSendErrors : EndpointSendEstablished(err)
    \/ RealtimeConnect(TRUE)
    \/ RealtimeInitializeSession
    \/ GatherStart
    \/ GatherResume
    \/ HandlerFinally
    \/ \E err \in ClientSendErrors : EndpointReportError(err)
    \/ EndpointFinally
    \/ \E f \in ClientFrames : ClientLoopReceive(f)
    \/ ClientLoopResponseCreate
    \/ ClientLoopSendError
    \/ \E f \in UpstreamFrames, err \in ClientSendErrors : OpenAILoopReceive(f, err)
    \/ OpenAIListenEnd
    \/ PeriodicCleanup
    \/ SetCleanupInterval(1)
    \/ SetSessionTimeout(1)
    \/ Tick

RelayClockSpec == Init /\ [][RelayClockNext]_vars


(* ------------------------------- claims -------------------------------- *)

AllClientIds == ClientIds \cup {EndpointClientId}

ActiveSessionsOf(cid) ==
    {s \in DOMAIN sessions : sessions[s].client_id = cid /\ sessions[s].is_active}

\* C1: in every state reached by registry operations, each client_id has at most
\* one stored session with is_active = TRUE
C1_AtMostOneActivePerClient ==
    \A cid \in AllClientIds : Cardinality(ActiveSessionsOf(cid)) <= 1

\* C2: a create_session step for a client_id that has an active stored session
\* fails with the duplicate error and changes neither the sessions, nor the client
\* mapping, nor the sweep task
C2_DuplicateCreateLeavesRegistryUnchanged ==
    [][\A cid \in ClientIds :
          (lastOp'.op = "create" /\ lastOp'.param = cid /\ ActiveSessionsOf(cid) # {})
          => /\ lastOp'.result = "ValueError"
             /\ UNCHANGED <<sessions, client_to_session, cleanup_task, wake_at>>]_vars

\* C3: while handle_websocket_connection still waits in gather with no exception
\* to propagate, it is never the case that exactly one of the two loops runs
C3_NoHalfOpenRelay ==
    (pc = "gathering" /\ gather_exc = None)
    => (LoopRunning(client_loop) <=> LoopRunning(openai_loop))

\* the handler's teardown has run: upstream disconnected, session removed
TeardownHasRun ==
    /\ pc = "done"
    /\ disconnect_calls >= 1
    /\ ep_session \notin DOMAIN sessions

\* a loop is left at a read or send that its connection's close is not already ending
ClientLoopLeft == LoopRunning(client_loop) /\ client_ws = "open"
OpenAILoopLeft == LoopRunning(openai_loop) /\ openai_ws = "open"

\* C4: once teardown has run, neither loop is left running or blocked
C4_NoLoopRunsAfterTeardown ==
    TeardownHasRun => ~ClientLoopLeft /\ ~OpenAILoopLeft

\* C5: disconnect() and the handler's remove_session are each called at most once,
\* and exactly once by the time a handler that entered handle_websocket_connection
\* has finished, with the session gone from the registry
C5_TeardownExactlyOnce ==
    /\ disconnect_calls <= 1
    /\ remove_calls <= 1
    /\ pc \in {"ep_except", "ep_finally"} => disconnect_calls = 1 /\ remove_calls = 0
    /\ pc = "done" => /\ disconnect_calls = 1
                      /\ remove_calls = 1
                      /\ ep_session \notin DOMAIN sessions

\* C5 witness: both loops raised before the handler resumed, and teardown ran once
C5_BothLoopsFailedWitness ==
    /\ pc = "done"
    /\ both_failed
    /\ client_loop = "raised"
    /\ openai_loop = "raised"
    /\ disconnect_calls = 1
    /\ remove_calls = 1

\* C6: whenever the endpoint handler has finished, its session is absent from the
\* registry, and the upstream client it created has been disconnected
C6_TeardownOnEveryExit ==
    HandlerFinished =>
        /\ ep_session \notin DOMAIN sessions
        /\ openai_ws # None => disconnect_calls = 1

\* C7: once the client loop has ended on the client's disconnect, the handler can
\* leave gather at once (no upstream event is needed), and when it has finished,
\* disconnect() was called once and the session is removed
C7_ClientDisconnectEndsRelay ==
    /\ (pc = "gathering" /\ client_ws = "closed" /\ client_loop = "returned")
        => ENABLED GatherResume
    /\ (pc = "done" /\ client_ws = "closed")
        => disconnect_calls = 1 /\ ep_session \notin DOMAIN sessions

\* the upstream connect failed: the handler is past connect() and the upstream API
\* never received the session initialisation
ConnectFailed ==
    /\ pc \in {"hwc_finally", "ep_except", "ep_finally", "done"}
    /\ upstream_recv = <<>>

ErrorsReceived == {i \in 1..Len(client_recv) : client_recv[i].type = "error"}

\* C8, as claimed: after a failed connect the client gets exactly one error with
\* a code, no loop was started, and the session is at no point registered active
C8_ConnectFailureNeverRegistersSession ==
    ConnectFailed =>
        /\ client_loop = "idle" /\ openai_loop = "idle"
        /\ ~(ep_session \in DOMAIN sessions /\ sessions[ep_session].is_active)
        /\ pc \in {"ep_finally", "done"} =>
              /\ Cardinality(ErrorsReceived) = 1
              /\ \A i \in ErrorsReceived : client_recv[i].code # None

\* C8, amended: after a failed connect no loop was started, the client has received
\* connection.established and then at most one error, with code WEBSOCKET_ERROR
\* (exactly one if its connection is still open), and the session is removed when
\* the handler has finished
C8_ConnectFailureReportedAndTornDown ==
    ConnectFailed =>
        /\ client_loop = "idle" /\ openai_loop = "idle"
        /\ \A i \in 1..Len(client_recv) :
              client_recv[i].type = (IF i = 1 THEN "connection.established" ELSE "error")
        /\ \A i \in ErrorsReceived : client_recv[i].code = "WEBSOCKET_ERROR"
        /\ pc \in {"hwc_finally", "ep_except"} => ErrorsReceived = {}
        /\ pc \in {"ep_finally", "done"} =>
              /\ Cardinality(ErrorsReceived) <= 1
              /\ client_ws = "open" => Cardinality(ErrorsReceived) = 1
        /\ pc = "done" => ep_session \notin DOMAIN sessions

\* C8 witness: the connect failed, the one error was delivered, the handler is done
C8_ConnectFailureWitness ==
    /\ ConnectFailed
    /\ pc = "done"
    /\ Cardinality(ErrorsReceived) = 1
    /\ ep_session \notin DOMAIN sessions

\* C9: once the client loop has seen a command fail at the upstream transport, it
\* is not back at reading client messages unless teardown is on its way (gather has
\* an exception to propagate, or the upstream loop is still there to raise one)
C9_UpstreamFailureIsFatal ==
    (upstream_send_failed /\ pc = "gathering" /\ client_loop = "recv")
    => (GatherDone \/ LoopRunning(openai_loop))

\* C10: the client loop is never back at reading after an error it could not
\* report, unless gather has an exception to propagate (teardown is triggered)
C10_LoopErrorNeverDropped ==
    (error_dropped /\ pc = "gathering" /\ client_loop = "recv") => GatherDone

\* C11: every message of type "error" the client has received carries a code and
\* a message text, neither of them null
C11_ErrorMessagesCarryCode ==
    \A i \in ErrorsReceived :
        client_recv[i].code # None /\ client_recv[i].message # None

\* the report of a bad-JSON frame is pending in the client loop
BadJsonErrorPending == client_loop = "send_error" /\ client_loop_err = "Invalid JSON format"

\* C12: the step that reads a client frame json.loads rejects sends nothing, closes
\* nothing and raises nothing, it only makes the error report pending; while the
\* report is pending nothing is sent upstream; the report step writes one error
\* message with code SERVER_ERROR to the client (if its connection is still open),
\* sends nothing upstream, closes nothing, and puts the loop back at the next read
C12_BadJsonIsNonFatal ==
    [][/\ (client_sent' = Append(client_sent, BadJsonFrame))
           => /\ client_loop' = "send_error"
              /\ client_loop_err' = "Invalid JSON format"
              /\ UNCHANGED <<upstream_recv, client_recv, rcVars, client_ws, gather_exc>>
       /\ BadJsonErrorPending
           => /\ upstream_recv' = upstream_recv
              /\ client_loop' \in {"send_error", "recv"}
       /\ (BadJsonErrorPending /\ client_loop' = "recv")
           => /\ UNCHANGED <<rcVars, client_ws, gather_exc>>
              /\ (client_ws = "open") =>
                    client_recv' = Append(client_recv,
                        [type |-> "error", message |-> "Invalid JSON format",
                         code |-> "SERVER_ERROR"])]_vars

\* C12 witness: one bad-JSON frame was read and reported, the relay goes on with
\* both connections open and nothing but the session initialisation sent upstream
C12_BadJsonWitness ==
    /\ pc = "gathering"
    /\ client_sent = <<BadJsonFrame>>
    /\ upstream_sent = <<>>
    /\ client_loop = "recv"
    /\ openai_loop = "listening"
    /\ client_ws = "open"
    /\ openai_ws = "open"
    /\ upstream_recv = <<SessionInitCommand>>
    /\ Cardinality(ErrorsReceived) = 1
    /\ Len(client_recv) = 2

\* the client message types process_client_message dispatches on
KnownClientTypes ==
    {"audio.append", "audio.commit", "conversation.interrupt", "session.update",
     "session.create"}

\* a frame that parses to a JSON object
IsJsonFrame(f) == f.frame = "text" /\ f.json

UnknownTypeFrame(f) ==
    IsJsonFrame(f) /\ Get(f.data, "type", None) \notin KnownClientTypes

\* C13: the step that reads a parseable client message whose type is none of the
\* five known ones (or is missing) sends nothing upstream, writes nothing to the
\* client, leaves the upstream session config and both connections as they are,
\* raises nothing, and leaves the client loop at its read
C13_UnknownTypeIgnored ==
    [][\A f \in AllClientFrames :
          (UnknownTypeFrame(f) /\ client_sent' = Append(client_sent, f))
          => /\ UNCHANGED <<upstream_recv, client_recv, rcVars, client_ws>>
             /\ UNCHANGED <<client_loop, client_loop_err, gather_exc, pc>>
             /\ client_loop = "recv"]_vars

\* C13 witness: an unknown-type message was read; the relay is exactly where it was
C13_UnknownTypeWitness ==
    /\ pc = "gathering"
    /\ client_sent = <<TextFrame([type |-> "unknown.type"])>>
    /\ upstream_sent = <<>>
    /\ client_loop = "recv"
    /\ upstream_recv = <<SessionInitCommand>>
    /\ client_recv = <<ConnectionEstablished(ep_session)>>
    /\ session_config = InitialSessionConfig

AppendFrame == TextFrame([type |-> "audio.append", audio |-> "QUJD"])
CommitFrame == TextFrame([type |-> "audio.commit"])

\* C14: in the commands the upstream API has received, every
\* input_audio_buffer.commit is directly followed by response.create (or is the
\* last command while commit_audio is between its two sends), response.create
\* appears nowhere else, and once the client messages audio.append, audio.commit
\* have been processed the upstream API has received, after the session
\* initialisation, exactly append(audio), commit, response.create
C14_AppendCommitResponseCreate ==
    /\ \A i \in 1..Len(upstream_recv) :
          /\ upstream_recv[i].type = "input_audio_buffer.commit"
              => IF i < Len(upstream_recv)
                 THEN upstream_recv[i + 1] = [type |-> "response.create"]
                 ELSE client_loop = "send_response_create"
          /\ upstream_recv[i].type = "response.create"
              => i > 1 /\ upstream_recv[i - 1].type = "input_audio_buffer.commit"
    /\ (client_sent = <<AppendFrame, CommitFrame>> /\ client_loop = "recv")
          => /\ Len(upstream_recv) = 4
             /\ upstream_recv[1].type = "session.update"
             /\ SubSeq(upstream_recv, 2, 4) =
                    <<[type |-> "input_audio_buffer.append", audio |-> "QUJD"],
                      [type |-> "input_audio_buffer.commit"],
                      [type |-> "response.create"]>>

\* C14 witness: scenario A has run to the end of commit_audio
C14_ScenarioAWitness ==
    /\ pc = "gathering"
    /\ client_sent = <<AppendFrame, CommitFrame>>
    /\ client_loop = "recv"
    /\ Len(upstream_recv) = 4
    /\ upstream_recv[4].type = "response.create"

IsPrefix(a, b) == Len(a) <= Len(b) /\ SubSeq(b, 1, Len(a)) = a

\* the upstream commands a sequence of client frames stands for, frame by frame,
\* starting from the upstream session config cfg
RECURSIVE ExpectedCommands(_, _)
ExpectedCommands(frames, cfg) ==
    IF frames = <<>> THEN <<>>
    ELSE LET f == Head(frames)
             t == IF IsJsonFrame(f) THEN Get(f.data, "type", None) ELSE None
             patch == CASE t = "session.update" -> Get(f.data, "config", EmptyMap)
                        [] t = "session.create" -> Get(f.data, "session", EmptyMap)
                        [] OTHER -> EmptyMap
             cfg2 == [k \in DOMAIN cfg \cup DOMAIN patch |->
                        IF k \in DOMAIN patch THEN patch[k] ELSE cfg[k]]
             cmds == CASE t = "audio.append" ->
                            <<[type |-> "input_audio_buffer.append",
                               audio |-> Get(f.data, "audio", "")]>>
                       [] t = "audio.commit" ->
                            <<[type |-> "input_audio_buffer.commit"],
                              [type |-> "response.create"]>>
                       [] t = "conversation.interrupt" -> <<[type |-> "response.cancel"]>>
                       [] t = "session.update" ->
                            <<[type |-> "session.update", session |-> cfg2]>>
                       [] t = "session.create" /\ DOMAIN patch # {} ->
                            <<[type |-> "session.update", session |-> cfg2]>>
                       [] OTHER -> <<>>
         IN cmds \o ExpectedCommands(Tail(frames), cfg2)

\* the client messages a sequence of upstream frames stands for, frame by frame
RECURSIVE ExpectedMessages(_, _)
ExpectedMessages(frames, session_id) ==
    IF frames = <<>> THEN <<>>
    ELSE LET f == Head(frames)
             out == IF IsJsonFrame(f) THEN ClientMessageFor(f.data, session_id)
                    ELSE [type |-> None]
         IN (IF out.type = None THEN <<>> ELSE <<out>>)
            \o ExpectedMessages(Tail(frames), session_id)

\* a message the relay generates itself, not a forwarded upstream event
IsLocalMessage(m) ==
    \/ m.type = "connection.established"
    \/ m.type = "error" /\ m.code \in {"SERVER_ERROR", "WEBSOCKET_ERROR"}

IsForwardedMessage(m) == ~IsLocalMessage(m)

\* the forwarded upstream events among the messages the client has received
Forwarded == SelectSeq(client_recv, IsForwardedMessage)

\* C15: the commands the upstream API has received are, in order and without
\* repetition, an initial part of the translation of the client frames read so far
\* (all of it whenever the client loop is at its read and the upstream connection
\* is up), and the forwarded messages the client has received are, in order and
\* without repetition, an initial part of the translation of the upstream frames
\* read so far (all of it while the client connection is open)
C15_ReceiptOrderPreserved ==
    LET cmds == <<[type |-> "session.update", session |-> InitialSessionConfig]>>
                \o ExpectedCommands(client_sent, InitialSessionConfig)
        msgs == ExpectedMessages(upstream_sent, ep_session)
    IN /\ IsPrefix(upstream_recv, cmds)
       /\ IsPrefix(Forwarded, msgs)
       /\ (client_loop = "recv" /\ openai_ws = "open" /\ is_connected)
              => upstream_recv = cmds
       /\ (client_ws = "open") => Forwarded = msgs

\* C15 witness: two different commands went upstream and two different events
\* went to the client
C15_TwoEachWayWitness ==
    /\ pc = "gathering"
    /\ client_loop = "recv"
    /\ Len(client_sent) = 2
    /\ Len(upstream_sent) = 2
    /\ Len(upstream_recv) = 3
    /\ upstream_recv[2] # upstream_recv[3]
    /\ Len(Forwarded) = 2
    /\ Forwarded[1] # Forwarded[2]

\* the upstream event types that have a client-facing projection
TranslatedEventTypes ==
    {"response.audio.delta", "response.audio.done",
     "conversation.item.input_audio_transcription.completed",
     "response.text.delta", "response.text.done", "error"}

\* client message out is what the translation table gives for upstream event d of
\* session S (a payload field is compared when the event carries it)
TableAgrees(d, out, S) ==
    LET t == Get(d, "type", None) IN
    CASE t = "response.audio.delta" ->
            /\ out.type = "audio.delta" /\ out.sessionId = S
            /\ DOMAIN out = {"type", "audio", "itemId", "sessionId"}
            /\ ("delta" \in DOMAIN d) => out.audio = d.delta
            /\ ("item_id" \in DOMAIN d) => out.itemId = d.item_id
      [] t = "response.audio.done" ->
            /\ out.type = "audio.done" /\ out.sessionId = S
            /\ ("item_id" \in DOMAIN d) => out.itemId = d.item_id
      [] t = "conversation.item.input_audio_transcription.completed" ->
            /\ out.type = "transcript.user" /\ out.sessionId = S
            /\ out.isFinal = TRUE
            /\ ("transcript" \in DOMAIN d) => out.text = d.transcript
      [] t = "response.text.delta" ->
            /\ out.type = "transcript.assistant" /\ out.sessionId = S
            /\ out.isFinal = FALSE
            /\ ("delta" \in DOMAIN d) => out.text = d.delta
            /\ ("item_id" \in DOMAIN d) => out.itemId = d.item_id
      [] t = "response.text.done" ->
            /\ out.type = "transcript.assistant" /\ out.sessionId = S
            /\ out.isFinal = TRUE
            /\ ("text" \in DOMAIN d) => out.text = d.text
            /\ ("item_id" \in DOMAIN d) => out.itemId = d.item_id
      [] t = "error" -> out.type = "error"
      [] OTHER -> FALSE

AudioDeltaFrame ==
    TextFrame([type |-> "response.audio.delta", delta |-> "QUJD", item_id |-> "it1"])

\* C16: the step that reads a parseable upstream event of one of the six
\* translated types writes exactly one message to the client, the one the
\* translation table gives for the handler's session (scenario B: the audio delta
\* QUJD of item it1 arrives as {audio.delta, QUJD, it1, session id}); the step that
\* reads an event of any other type writes nothing to the client
C16_UpstreamEventTranslation ==
    [][\A f \in AllUpstreamFrames :
          (IsJsonFrame(f) /\ upstream_sent' = Append(upstream_sent, f) /\ client_ws = "open")
          => IF Get(f.data, "type", None) \in TranslatedEventTypes
             THEN /\ Len(client_recv') = Len(client_recv) + 1
                  /\ SubSeq(client_recv', 1, Len(client_recv)) = client_recv
                  /\ TableAgrees(f.data, client_recv'[Len(client_recv')], ep_session)
                  /\ (f = AudioDeltaFrame) =>
                        client_recv'[Len(client_recv')] =
                            [type |-> "audio.delta", audio |-> "QUJD", itemId |-> "it1",
                             sessionId |-> ep_session]
             ELSE client_recv' = client_recv]_vars

\* C16 witness: scenario B has run
C16_ScenarioBWitness ==
    /\ pc = "gathering"
    /\ upstream_sent = <<AudioDeltaFrame>>
    /\ client_recv = <<ConnectionEstablished(ep_session),
                       [type |-> "audio.delta", audio |-> "QUJD", itemId |-> "it1",
                        sessionId |-> ep_session]>>

\* the config fields a client frame names for the upstream session, if any
ConfigPatchOf(f) ==
    IF ~IsJsonFrame(f) THEN EmptyMap
    ELSE CASE Get(f.data, "type", None) = "session.update" -> Get(f.data, "config", EmptyMap)
           [] Get(f.data, "type", None) = "session.create" -> Get(f.data, "session", EmptyMap)
           [] OTHER -> EmptyMap

\* positions of the client frames read so far that name config field k
NamingFrames(k) == {i \in 1..Len(client_sent) : k \in DOMAIN ConfigPatchOf(client_sent[i])}

Latest(S) == CHOOSE x \in S : \A y \in S : y <= x

\* the value the latest frame naming k gave it, or its default
LatestValue(k) ==
    IF NamingFrames(k) = {} THEN InitialSessionConfig[k]
    ELSE ConfigPatchOf(client_sent[Latest(NamingFrames(k))])[k]

\* the upstream session config holds, for every field, the value of the latest
\* update that named it (or its default), and holds no other field
ConfigIsLatestValues ==
    /\ DOMAIN session_config =
          DOMAIN InitialSessionConfig
          \cup UNION {DOMAIN ConfigPatchOf(client_sent[i]) : i \in 1..Len(client_sent)}
    /\ \A k \in DOMAIN session_config : session_config[k] = LatestValue(k)

SessionUpdateFrame(f) == IsJsonFrame(f) /\ Get(f.data, "type", None) = "session.update"

\* C18: the step that reads a session.update message sets every config field the
\* message names, keeps every other field, and sends one session.update command
\* carrying the whole resulting config; and at all times each field of the upstream
\* session config has the value of the latest update that named it, or its default
C18_SessionUpdateMerges ==
    /\ []ConfigIsLatestValues
    /\ [][\A f \in AllClientFrames :
            (SessionUpdateFrame(f) /\ client_sent' = Append(client_sent, f))
            => LET patch == Get(f.data, "config", EmptyMap) IN
               /\ DOMAIN session_config' = DOMAIN session_config \cup DOMAIN patch
               /\ \A k \in DOMAIN patch : session_config'[k] = patch[k]
               /\ \A k \in DOMAIN session_config \ DOMAIN patch :
                     session_config'[k] = session_config[k]
               /\ upstream_recv' = Append(upstream_recv,
                     [type |-> "session.update", session |-> session_config'])]_vars

\* C18 witness: two updates naming different fields; both values are in the config
\* the second command carries
C18_TwoUpdatesWitness ==
    /\ pc = "gathering"
    /\ client_sent = <<TextFrame([type |-> "session.update", config |-> [voice |-> "echo"]]),
                       TextFrame([type |-> "session.update",
                                  config |-> [instructions |-> "brief"]])>>
    /\ session_config = [voice |-> "echo", instructions |-> "brief"]
    /\ Len(upstream_recv) = 3
    /\ upstream_recv[3] = [type |-> "session.update", session |-> session_config]

\* payload objects of session.create / session.update
CreatePayloads == {EmptyMap, [voice |-> "echo"], [instructions |-> "brief"]}

\* C19: for every payload P, the step that reads session.create{session: P} leaves
\* the upstream session config and sends the upstream command exactly as the
\* processing of session.update{config: P} does in the same state
C19_SessionCreateIsAlias ==
    [][\A P \in CreatePayloads :
          (/\ client_sent' = Append(client_sent,
                    TextFrame([type |-> "session.create", session |-> P]))
           /\ openai_ws = "open" /\ is_connected)
          => LET call == RcCall([type |-> "session.update", config |-> P]) IN
             /\ session_config' = ConfigAfter(call)
             /\ upstream_recv' = Append(upstream_recv, FirstCommand(call))]_vars

\* config patches: each names one field of SessionConfig
ConfigPatches == {[voice |-> "echo"], [instructions |-> "brief"]}

\* C17: an update_session step whose config argument is built from a patch naming
\* only some config fields leaves every config field the patch does not name with
\* the value it had before the step
C17_ConfigUpdateIsPartialMerge ==
    [][\A sid \in SessionIds, patch \in ConfigPatches :
          (/\ sid \in DOMAIN sessions
           /\ lastOp'.op = "update"
           /\ UpdateSession(sid, [config |-> SessionConfig(patch)]))
          => \A f \in DOMAIN sessions[sid].config \ DOMAIN patch :
                sessions'[sid].config[f] = sessions[sid].config[f]]_vars

\* seconds since the session's last activity, and the limit for its state
Age(s) == now - sessions[s].last_activity
Limit(s) == IF sessions[s].is_active THEN session_timeout ELSE cleanup_interval

\* the step is a run of cleanup_inactive_sessions, called directly or by the
\* background task
SweepStep ==
    \/ lastOp'.op = "sweep"
    \/ lastOp'.op = "periodic" /\ cleanup_task = "sleeping" /\ DOMAIN sessions # {}

C21_GraceFromDeactivation ==
    /\ [](lastOp.op = "deactivate" =>
            (lastOp.result = TRUE => lastOp.param \in DOMAIN sessions))
    /\ [][(lastOp.op = "deactivate" /\ lastOp'.op \in {"sweep", "periodic"}) =>
            (lastOp.result = TRUE => lastOp.param \in DOMAIN sessions')]_vars

\* a relay loop forwards a message: a command reaches the upstream API, or a
\* message reaches the client
TrafficStep ==
    /\ pc = "gathering"
    /\ \/ Len(upstream_recv') = Len(upstream_recv) + 1
       \/ Len(client_recv') = Len(client_recv) + 1

\* C22: every inbound or outbound traffic event of a relay refreshes the
\* lastActivityAt of the relay's session: after a relay loop has forwarded a
\* message, the stored session's lastActivityAt is the time of that message (so the
\* background sweep cannot find the session of a busy relay expired).
C22_TrafficRefreshesActivity ==
    [][(TrafficStep /\ ep_session \in DOMAIN sessions) =>
        (/\ ep_session \in DOMAIN sessions'
         /\ sessions'[ep_session].last_activity = now)]_vars

\* the background task is pending: created and not finished
SweepTaskRunning == cleanup_task = "sleeping"

C24_ShutdownLeavesNothing ==
    (lastOp.op = "shutdown" /\ lastOp.result = "done") =>
        /\ cleanup_task \in {"None", "done"}
        /\ DOMAIN sessions = {}
        /\ DOMAIN client_to_session = {}

\* C25: remove hard-deletes the record and its clientId mapping and is
\* idempotent: it returns true exactly when the session was stored; afterwards
\* get finds nothing under that id and the client mapping neither holds the
\* session's client nor points to the session; every other record is kept as it
\* was; a remove of a session that is not stored returns false and changes nothing.
C25_RemoveIsHardAndIdempotent ==
    [][\A sid \in SessionIds :
        (lastOp'.op = "remove" /\ lastOp'.param = sid) =>
            /\ lastOp'.result = (sid \in DOMAIN sessions)
            /\ sid \notin DOMAIN sessions'
            /\ \A c \in DOMAIN client_to_session' : client_to_session'[c] # sid
            /\ sid \in DOMAIN sessions =>
                    sessions[sid].client_id \notin DOMAIN client_to_session'
            /\ \A s \in DOMAIN sessions \ {sid} :
                    s \in DOMAIN sessions' /\ sessions'[s] = sessions[s]
            /\ sid \notin DOMAIN sessions =>
                    UNCHANGED <<sessions, client_to_session, cleanup_task, wake_at,
                                cleanup_interval, session_timeout, next_id>>]_vars

\* a session that was stored and removed is removed again
C25_SecondRemoveWitness ==
    /\ lastOp.op = "remove"
    /\ lastOp.result = FALSE
    /\ lastOp.param < next_id
    /\ DOMAIN sessions # {}

\* the allow-list of update, as the contract names it
AllowListed == {"openai_session_id", "config", "is_active", "conversation_id", "last_activity"}

\* C26: update changes only allow-listed fields. A field named outside the
\* allow-list is ignored without error (the call returns true for a stored
\* session), so session_id, client_id and connected_at of a stored session never
\* change and the registry key of a session always equals its session_id; every
\* allow-listed field named takes the value passed and every other field keeps
\* its value, except that last_activity is set to now unless the caller supplied it.
C26_UpdateChangesOnlyAllowListed ==
    /\ [](\A s \in DOMAIN sessions : sessions[s].session_id = s)
    /\ [][\A sid \in SessionIds, kw \in FieldKwargs :
            (sid \in DOMAIN sessions /\ UpdateSession(sid, kw)) =>
                /\ lastOp'.op = "update"
                /\ lastOp'.result = TRUE
                /\ DOMAIN sessions' = DOMAIN sessions
                /\ \A s \in DOMAIN sessions \ {sid} : sessions'[s] = sessions[s]
                /\ \A f \in {"session_id", "client_id", "connected_at"} :
                        sessions'[sid][f] = sessions[sid][f]
                /\ \A f \in (AllowListed \cap DOMAIN kw) : sessions'[sid][f] = kw[f]
                /\ \A f \in (AllowListed \ DOMAIN kw) \ {"last_activity"} :
                        sessions'[sid][f] = sessions[sid][f]
                /\ "last_activity" \notin DOMAIN kw => sessions'[sid].last_activity = now]_vars

\* C27: for every stored session, last_activity >= connected_at, after any
\* sequence of registry operations, updates that supply last_activity included.
C27_ActivityNotBeforeConnection ==
    \A s \in DOMAIN sessions : sessions[s].last_activity >= sessions[s].connected_at

\* the upstream connection is Ready: the transport is open and connect() has marked
\* the client connected
UpstreamReady == openai_ws = "open" /\ is_connected

\* C28: a command (send_audio, commit_audio, interrupt_conversation,
\* update_session) issued while the upstream connection is not Ready fails with
\* the not-connected error: the call raises at its connection check, nothing is
\* sent upstream, no transport send is attempted, and the upstream session
\* config is left unchanged.
C28_CommandsRejectedUnlessReady ==
    [][\A f \in ClientFrames :
        (/\ client_sent' = Append(client_sent, f)
         /\ IsJsonFrame(f)
         /\ RcCall(f.data).method # None
         /\ ~UpstreamReady) =>
            /\ client_loop_err' = "Message processing error"
            /\ upstream_send_failed' = upstream_send_failed
            /\ UNCHANGED <<upstream_recv, session_config>>]_vars

\* a call of disconnect() returns
DisconnectStep == disconnect_calls' = disconnect_calls + 1

\* C29: disconnect() is idempotent. From any state it leaves the client not
\* connected and the transport not open; it closes an open transport and calls
\* close on no other, so the transport is closed at most once; it raises nothing
\* and changes neither the session config nor what the peers have received; a
\* disconnect of a client that is already disconnected changes nothing.
C29_DisconnectIsIdempotent ==
    [][DisconnectStep =>
        /\ ~is_connected'
        /\ openai_ws' # "open"
        /\ openai_ws = "open" => openai_ws' = "closed_ok"
        /\ openai_ws # "open" => openai_ws' = openai_ws
        /\ (~is_connected /\ openai_ws # "open") => UNCHANGED <<openai_ws, is_connected>>
        /\ UNCHANGED <<session_config, upstream_recv, client_recv, gather_exc>>]_vars

\* disconnect() has been called again on a client it had closed before
C29_SecondDisconnectWitness ==
    /\ disconnect_calls >= 2
    /\ openai_ws = "closed_ok"
    /\ ~is_connected
    /\ upstream_recv # <<>>

\* the session.update that carries the default session config
DefaultSessionUpdate == [type |-> "session.update", session |-> InitialSessionConfig]

\* connect() raises: the handler leaves its connect step for its finally clause
ConnectFails == pc \in {"connect", "init_session"} /\ pc' = "hwc_finally"

\* C30: on a successful connect() the first command the upstream receives is the
\* initial session.update carrying the default session config: right after connect
\* it is the only command, and whatever the upstream has received starts with it,
\* so it precedes every command derived from a client message. If opening the
\* transport or sending the initial command fails, connect() raises, nothing was
\* sent by the failing step, and the client is not left connected.
C30_ConnectSendsDefaultConfigFirst ==
    /\ [](upstream_recv # <<>> => upstream_recv[1] = DefaultSessionUpdate)
    /\ [](pc = "gather" => upstream_recv = <<DefaultSessionUpdate>> /\ is_connected)
    /\ [](pc \in {"accept", "send_established", "connect", "init_session"}
            => upstream_recv = <<>>)
    /\ [][ConnectFails =>
            /\ handler_exc' = "Exception"
            /\ ~is_connected'
            /\ upstream_recv' = upstream_recv]_vars

\* after a successful connect a command derived from a client message has reached
\* the upstream
C30_CommandAfterConnectWitness ==
    /\ Len(upstream_recv) >= 2
    /\ upstream_recv[1] = DefaultSessionUpdate
    /\ upstream_recv[2].type = "input_audio_buffer.append"
    /\ Len(client_sent) >= 1

(* ---------------------------- claims 31-39 ----------------------------- *)

\* the messages the relay forwards to the client from upstream events
RelayedTypes == {"audio.delta", "audio.done", "transcript.user", "transcript.assistant",
                 "error"}

\* C31: the first message the client receives on an accepted connection is
\* connection.established carrying the sessionId of the session just registered:
\* whatever the client has received starts with it, the send that delivers it finds
\* that session stored, active and registered for this connection's client id, and
\* no relayed message (audio.delta, transcript.*, error) comes before it.
C31_EstablishedIsFirst ==
    /\ [](client_recv # <<>> =>
            /\ client_recv[1].type = "connection.established"
            /\ client_recv[1].sessionId = ep_session
            /\ DOMAIN client_recv[1] = {"type", "sessionId"})
    /\ []((pc \in {"accept", "send_established"}) => client_recv = <<>>)
    /\ [][(client_recv = <<>> /\ client_recv' # <<>>) =>
            /\ Len(client_recv') = 1
            /\ client_recv'[1].type \notin RelayedTypes
            /\ ep_session \in DOMAIN sessions
            /\ sessions[ep_session].is_active
            /\ sessions[ep_session].client_id = EndpointClientId
            /\ client_to_session[EndpointClientId] = ep_session]_vars

\* the client has received connection.established and then a relayed message
C31_RelayedAfterEstablishedWitness ==
    /\ Len(client_recv) >= 2
    /\ client_recv[1].type = "connection.established"
    /\ client_recv[2].type \in RelayedTypes
    /\ Len(upstream_sent) >= 1

\* the registry after create_session(c.cid) run alone on the registry c.pre, the
\* duplicate check having passed
AloneAfterCreate(c) ==
    [sessions |-> MapPut(c.pre.sessions, c.pre.next_id,
                    NewSession(c.pre.next_id, c.cid, now, SessionConfigDefaults)),
     client_to_session |-> MapPut(c.pre.client_to_session, c.cid, c.pre.next_id),
     next_id |-> c.pre.next_id + 1,
     cleanup_task |-> IF c.pre.cleanup_task \in {"None", "done"} THEN "sleeping"
                      ELSE c.pre.cleanup_task]

\* the registry after update_session(c.sid, **c.kwargs) run alone on the registry
\* c.pre, the session being stored
AloneAfterUpdate(c) ==
    [sessions |-> [c.pre.sessions EXCEPT ![c.sid] =
                    TouchUnlessGiven(ApplyKwargs(@, KwargsMap(c.kwargs)),
                                     KwargsMap(c.kwargs), now)],
     client_to_session |-> c.pre.client_to_session,
     next_id |-> c.pre.next_id,
     cleanup_task |-> c.pre.cleanup_task]

C33_CodecRoundTrip ==
    /\ codec_pc = "decoded" =>
            /\ audio_decoded.ok
            /\ audio_decoded.bytes = audio_bytes
    /\ codec_pc # "input" =>
            /\ Len(audio_base64) = 4 * ((Len(audio_bytes) + 2) \div 3)
            /\ decode_audio(audio_base64) = Decoded(TRUE, audio_bytes)

\* a buffer whose length is not a multiple of three, with bytes above 127, has
\* been encoded with padding and decoded
C33_PaddedBufferWitness ==
    /\ codec_pc = "decoded"
    /\ Len(audio_bytes) = 4
    /\ audio_bytes[1] = 255 /\ audio_bytes[4] = 128
    /\ audio_base64[8] = "="
    /\ audio_decoded.bytes = audio_bytes

\* the registry apart from the record of the last call
RegistryState ==
    <<sessions, client_to_session, cleanup_task, wake_at, cleanup_interval,
      session_timeout, shutdown_pc, next_id>>

\* C34: registry statistics are consistent in every reachable state: total_sessions
\* is the number of stored sessions, active_sessions the number whose is_active is
\* true, inactive_sessions the number whose is_active is false, so that total =
\* active + inactive; the two configured limits are reported as set; and reading
\* the statistics changes no registry state.
C34_StatsAreConsistent ==
    /\ [](/\ get_stats.total_sessions = Cardinality(DOMAIN sessions)
          /\ get_stats.active_sessions =
                Cardinality({s \in DOMAIN sessions : sessions[s].is_active})
          /\ get_stats.inactive_sessions =
                Cardinality({s \in DOMAIN sessions : ~sessions[s].is_active})
          /\ get_stats.total_sessions =
                get_stats.active_sessions + get_stats.inactive_sessions)
    /\ [][lastOp'.op = "get_stats" =>
            /\ RegistryState' = RegistryState
            /\ lastOp'.result.total_sessions = Cardinality(DOMAIN sessions)
            /\ lastOp'.result.total_sessions =
                lastOp'.result.active_sessions + lastOp'.result.inactive_sessions
            /\ lastOp'.result.cleanup_interval = cleanup_interval
            /\ lastOp'.result.session_timeout = session_timeout]_vars

\* statistics have been read from a registry that holds active and inactive
\* sessions and whose limits have been changed
C34_MixedStatsWitness ==
    /\ lastOp.op = "get_stats"
    /\ lastOp.result.active_sessions >= 1
    /\ lastOp.result.inactive_sessions >= 1
    /\ lastOp.result.total_sessions = 3
    /\ lastOp.result.cleanup_interval = 1

\* the events of the parseable frames of a sequence of frames, in order
ParseableEvents(frames) ==
    LET parseable == SelectSeq(frames, IsJsonFrame)
    IN [i \in 1..Len(parseable) |-> parseable[i].data]

RemovedBy(op) ==
    IF op.op = "remove" THEN {op.param}
    ELSE IF op.op \in {"sweep", "periodic"} THEN op.param
    ELSE {}

\* C36: remove(sessionId) and sweep leave every other session's lookups unchanged:
\* a stored session T that the step does not remove is still returned by get(T)
\* afterwards, and if getByClient(T.clientId) returned T before the step it
\* returns T after it, also when the removed session has T's client id.
C36_RemoveKeepsOtherLookups ==
    [][\A t \in DOMAIN sessions \ RemovedBy(lastOp') :
        (lastOp'.op \in {"remove", "sweep", "periodic"}) =>
            /\ t \in DOMAIN sessions'
            /\ sessions'[t] = sessions[t]
            /\ LET cid == sessions[t].client_id IN
               (cid \in DOMAIN client_to_session /\ client_to_session[cid] = t) =>
                    (cid \in DOMAIN client_to_session' /\ client_to_session'[cid] = t)]_vars

\* C37: the client-to-session map never dangles: in every reachable state each
\* entry clientId -> sessionId names a session that is stored in the registry and
\* whose client_id field is that key.
C37_ClientMapNeverDangles ==
    \A cid \in DOMAIN client_to_session :
        /\ client_to_session[cid] \in DOMAIN sessions
        /\ sessions[client_to_session[cid]].client_id = cid

\* a session has been removed while two sessions stay stored, one of them
\* inactive, and the map still holds an entry
C37_EntryOutlivesRemoveWitness ==
    /\ lastOp.op = "remove"
    /\ lastOp.result = TRUE
    /\ DOMAIN client_to_session # {}
    /\ Cardinality(DOMAIN sessions) = 2
    /\ \E s \in DOMAIN sessions : ~sessions[s].is_active

\* the only session stored for the client is inactive
OnlyInactiveStored(cid) ==
    LET S == {s \in DOMAIN sessions : sessions[s].client_id = cid}
    IN Cardinality(S) = 1 /\ \A s \in S : ~sessions[s].is_active

\* C38: create(clientId, ...) succeeds when the only session stored for clientId is
\* inactive: it returns a new active session of that client under a fresh id that
\* no stored session has, getByClient(clientId) then returns the new session, and
\* the old inactive record stays stored as it was; a stored session leaves the
\* registry only by a remove or a sweep that names it.
C38_CreateAfterDeactivate ==
    /\ [][\A cid \in ClientIds :
            (lastOp'.op = "create" /\ lastOp'.param = cid /\ OnlyInactiveStored(cid)) =>
                /\ lastOp'.result = "created"
                /\ \E new \in DOMAIN sessions' \ DOMAIN sessions :
                    /\ DOMAIN sessions' = DOMAIN sessions \cup {new}
                    /\ sessions'[new].is_active
                    /\ sessions'[new].client_id = cid
                    /\ sessions'[new].session_id = new
                    /\ cid \in DOMAIN client_to_session'
                    /\ client_to_session'[cid] = new
                /\ \A s \in DOMAIN sessions : sessions'[s] = sessions[s]]_vars
    /\ [][\A s \in DOMAIN sessions :
            s \notin DOMAIN sessions' =>
                (lastOp'.op \in {"remove", "sweep", "periodic"} /\ s \in RemovedBy(lastOp'))]_vars

\* a client whose only session was inactive has been given a new session, and the
\* old record is still stored beside it
C38_NewBesideOldWitness ==
    /\ lastOp.op = "create"
    /\ lastOp.result = "created"
    /\ \E old, new \in DOMAIN sessions :
        /\ old < new
        /\ sessions[old].client_id = lastOp.param
        /\ sessions[new].client_id = lastOp.param
        /\ ~sessions[old].is_active
        /\ sessions[new].is_active
        /\ client_to_session[lastOp.param] = new

\* a client message that calls a method of the upstream client
CallsUpstream(f) == IsJsonFrame(f) /\ RcCall(f.data).method # None

\* C39: no command reaches the upstream transport after disconnect() has been
\* invoked on the connection: from then on nothing is added to what the upstream
\* received, no send is attempted at the transport, and a client message that
\* would send a command is refused as not connected (the client loop goes on to
\* report the error).
C39_NoCommandAfterDisconnect ==
    [][disconnect_calls >= 1 =>
        /\ upstream_recv' = upstream_recv
        /\ upstream_send_failed' = upstream_send_failed
        /\ \A f \in ClientFrames :
            (client_sent' = Append(client_sent, f) /\ CallsUpstream(f)) =>
                (client_loop' = "send_error" /\ session_config' = session_config)]_vars

====
